---- MODULE Spec2Model ----
(***************************************************************************)
(* Luas tracker: the sampler (scheduler.poll_luas_and_store) and the       *)
(* scheduled reconciliation engine                                         *)
(* (scheduler.calculate_accuracy_from_snapshots) over the two tables of    *)
(* database.py.  Time is in whole seconds.                                 *)
(***************************************************************************)
EXTENDS Integers, Sequences, FiniteSets, TLC

(* ------------------------------ bounds -------------------------------- *)
MaxSnapshots == 2      \* rows the luas_snapshots table may hold
MaxAccuracy  == 2      \* rows the luas_accuracy table may hold
MaxTrams     == 2      \* forecasts one fetch may return
MaxMinutes   == 4      \* the feed sends due_minutes 0..MaxMinutes and FarMinutes
MaxScanGap   == 125    \* seconds between the two rows of a drawn two-row store
MaxPolledStops == 4    \* stops of the configured list a run on the clock polls
MaxClock     == 90     \* the last second of the scheduler's clock
MaxJobMinutes == 1     \* the feed sends due_minutes 0..MaxJobMinutes to the interleaved jobs
MaxDelaySeconds == 2   \* seconds the clock may advance around the parse of a response
MaxLoops     == 2      \* unclosed event loops that wait for the garbage collector

(* -------------------------- program constants ------------------------- *)
STOPS_TO_POLL == <<"cab", "tal">>
Directions    == {"Inbound"}
Destinations  == {"Broombridge"}
SnapshotWindowSeconds == 7200
MaxPollGapSeconds     == 120
SanityBound           == 2
DedupWindowSeconds    == 120
FarMinutes            == 12
PollIntervalSeconds     == 30
AccuracyIntervalSeconds == 60
FetchTimeoutSeconds     == 10
MaxInstances            == 1
OneDaySeconds           == 86400
(* The instants the clock advances to: 30 s (one poll interval), 150 s     *)
(* later (past the poll gap and the dedup window) and two hours later      *)
(* (past the snapshot window for the rows of instant 0).                   *)
Instants == {0, 30, 180, 7230}

(* trackFailures is fixed by the initial state: where it holds, the        *)
(* history variables also record the runs that failed (pollPrevFailed,     *)
(* lastRun); the tables and the jobs never depend on it.                   *)
VARIABLES now, snapshots, accuracy, pollIdx, pollBase, pollLog, pollPrevFailed,
          lastRun, raised, trackFailures, fetched,
          examined,          \* what the last engine run read and examined
          instances,         \* the running instances of each job
          next_run_time,     \* the instant of the next firing of each job
          schedulerState,    \* "running" until scheduler.shutdown()
          fetchSince,        \* when the fetch in flight was started, or -1
          fireLog,           \* what became of the firings so far
          session,           \* the open session of the sampler
          engineSession,     \* the open session of the engine
          readLog,           \* what the last read request saw
          loops              \* the event loops the sampler's thread created

(* The variables of the scheduler, of the open sessions and of the         *)
(* requests; the actions of the jobs taken as a whole leave them alone.    *)
aux == <<examined, instances, next_run_time, schedulerState, fetchSince,
         fireLog, session, engineSession, readLog, loops>>

vars == <<now, snapshots, accuracy, pollIdx, pollBase, pollLog, pollPrevFailed,
          lastRun, raised, trackFailures, fetched, aux>>

NumStops == Len(STOPS_TO_POLL)
Minutes  == (0..MaxMinutes) \cup {FarMinutes}

Abs(x) == IF x < 0 THEN -x ELSE x

(* Python's round() on the rational num/den, den > 0: nearest integer,    *)
(* ties to the even neighbour.                                             *)
PyRound(num, den) ==
  LET q == num \div den
      r == num % den
  IN  IF 2 * r < den THEN q
      ELSE IF 2 * r > den THEN q + 1
      ELSE IF q % 2 = 0 THEN q ELSE q + 1

(* ------------------------- exception handling ------------------------- *)
(* The exceptions a step of a job can raise: LuasAPIError, or any other    *)
(* subclass of Exception.  An except clause is named by the class it       *)
(* lists; "bare" is an except: without a class.                            *)
ExceptionClasses == {"LuasAPIError", "Exception"}

Catches(clause, class) ==
  clause = "bare" \/ clause = "Exception" \/ clause = class

Handled(clauses, class) == \E clause \in clauses : Catches(clause, class)

(* The clauses of the per-stop try with the generic clause of line 250     *)
(* missing.                                                                *)
PollStopHandlersNarrow == {"LuasAPIError"}

(* Lines 248-251: the clauses of the try around one stop.                  *)
PollStopHandlers == {"LuasAPIError", "Exception"}
(* Line 242: the clause of the try around the session of one stop.         *)
StoreHandlers == {"Exception"}
(* Line 187: the clause of the try around db.commit().                     *)
CommitHandlers == {"Exception"}
(* Line 199: the clause of the try around the whole engine run.            *)
ReconcileHandlers == {"Exception"}

(* The job functions of start_luas_polling (lines 264-285).                *)
Jobs == {"poll_luas_and_store", "calculate_accuracy_from_snapshots"}

(* The jobs out of which an exception has propagated, after a step of job  *)
(* in which escapes tells whether one did.                                 *)
Raise(job, escapes) == IF escapes THEN raised \cup {job} ELSE raised

(* ------------------------------ the feed ------------------------------ *)
Forecast == [direction : Directions, destination : Destinations,
             due_minutes : Minutes]

RECURSIVE SeqsUpTo(_, _)
SeqsUpTo(S, n) ==
  IF n = 0 THEN {<<>>}
  ELSE LET shorter == SeqsUpTo(S, n - 1)
       IN  shorter \cup {Append(q, x) : q \in {p \in shorter : Len(p) = n - 1}, x \in S}

FetchResults == SeqsUpTo(Forecast, MaxTrams)

(* --------------------- the feed adapter (luas_client.py) -------------- *)
(* A text that int() and lower() work on is a sequence of characters.      *)
DigitValue ==
  ("0" :> 0) @@ ("1" :> 1) @@ ("2" :> 2) @@ ("3" :> 3) @@ ("4" :> 4) @@
  ("5" :> 5) @@ ("6" :> 6) @@ ("7" :> 7) @@ ("8" :> 8) @@ ("9" :> 9)

LowerCase == ("D" :> "d") @@ ("U" :> "u") @@ ("E" :> "e") @@ ("X" :> "x")

(* str.lower().                                                            *)
Lower(text) ==
  [i \in 1..Len(text) |->
     IF text[i] \in DOMAIN LowerCase THEN LowerCase[text[i]] ELSE text[i]]

RECURSIVE DecimalValue(_, _, _)
DecimalValue(digits, i, value) ==
  IF i > Len(digits) THEN value
  ELSE DecimalValue(digits, i + 1, 10 * value + DigitValue[digits[i]])

(* Python's int(text) on a text without blanks: an optional sign and one   *)
(* or more decimal digits; anything else raises ValueError (ok = FALSE).   *)
PyInt(text) ==
  LET signed == Len(text) > 0 /\ text[1] \in {"-", "+"}
      digits == IF signed THEN Tail(text) ELSE text
      valid  == Len(digits) > 0
                  /\ \A i \in 1..Len(digits) : digits[i] \in DOMAIN DigitValue
      value  == IF valid THEN DecimalValue(digits, 1, 0) ELSE 0
  IN  [ok |-> valid,
       value |-> IF signed /\ text[1] = "-" THEN -value ELSE value]

(* The texts of a destination and of a minutes field the feed sends, and   *)
(* the name of the direction element.                                      *)
DestinationTexts == {"Broombridge", "", "No trams forecast"}
MinuteTexts ==
  {<<"5">>, <<"0">>, <<"D", "U", "E">>, <<"d", "u", "e">>, <<"D", "u", "e">>,
   <<"X">>, <<"-", "5">>, <<>>}
DirectionName == "Inbound"

NoFields == [name \in {} |-> ""]

(* The fields of a tram under the names destination and minutes, each      *)
(* present or not.                                                         *)
Fields(destination, minutes) ==
  {d @@ m : d \in {NoFields} \cup {destination :> x : x \in DestinationTexts},
            m \in {NoFields} \cup {minutes :> x : x \in MinuteTexts}}

(* A tram element of the layout in the docstring of parse_luas_xml (lines  *)
(* 57-67): the values are the texts of child elements.                     *)
ElementTrams ==
  {[children |-> ("direction" :> DirectionName) @@ c, attrib |-> NoFields,
    parent_name |-> ""] : c \in Fields("destination", "dueMinutes")}

(* A tram element of the layout of the payloads in test_luas_tracker.py    *)
(* (lines 21-27): the values are attributes of the tram element, the       *)
(* direction is the name attribute of the enclosing direction element.     *)
AttributeTrams ==
  {[children |-> NoFields, attrib |-> a, parent_name |-> DirectionName] :
     a \in Fields("destination", "dueMins")}

Trams == ElementTrams \cup AttributeTrams

(* Element.findtext(name, default): the text of the first child element    *)
(* called name, the default when the element has no such child.            *)
FindText(tram, name, default) ==
  IF name \in DOMAIN tram.children THEN tram.children[name] ELSE default

(* Lines 87-94: 0 for the marker "due" in any letter case, int() of the    *)
(* text (of "0" for an empty text) otherwise, 0 when int() raises          *)
(* ValueError.                                                             *)
DueMinutes(due_minutes_str) ==
  IF due_minutes_str # <<>> /\ Lower(due_minutes_str) = <<"d", "u", "e">> THEN 0
  ELSE LET parsed == PyInt(IF due_minutes_str = <<>> THEN <<"0">> ELSE due_minutes_str)
       IN  IF parsed.ok THEN parsed.value ELSE 0

(* Lines 81-125: the forecasts one tram element contributes.               *)
ParseTram(tram) ==
  LET destination == FindText(tram, "destination", "Unknown")
      direction   == FindText(tram, "direction", "Unknown")
      due_minutes == DueMinutes(FindText(tram, "dueMinutes", <<"0">>))
  IN  IF destination # "Unknown"
      THEN <<[direction |-> direction, destination |-> destination,
              due_minutes |-> due_minutes]>>
      ELSE <<>>

(* Line 80: for tram in root.findall(".//tram"), in document order.        *)
RECURSIVE ParseTrams(_, _, _)
ParseTrams(trams, i, forecasts) ==
  IF i > Len(trams) THEN forecasts
  ELSE ParseTrams(trams, i + 1, forecasts \o ParseTram(trams[i]))

(* What the feed answers: no answer (transport or HTTP status error), a    *)
(* text that is not well-formed XML, or a document with its tram elements. *)
Responses ==
  {[kind |-> k, trams |-> <<>>] : k \in {"transport_error", "malformed"}}
    \cup {[kind |-> "document", trams |-> t] : t \in SeqsUpTo(Trams, MaxTrams)}

(* parse_luas_xml answering a text that is not XML with an empty list.     *)
parse_luas_xml_lenient(response) ==
  [error |-> FALSE,
   forecasts |-> IF response.kind = "malformed" THEN <<>>
                 ELSE ParseTrams(response.trams, 1, <<>>)]

(* Lines 53-139: ET.fromstring raises ParseError on a malformed text,      *)
(* which is raised as LuasAPIError (lines 136-139); otherwise the list of  *)
(* forecasts, empty or not (lines 131-134).                                *)
parse_luas_xml(response) ==
  IF response.kind = "malformed"
  THEN [error |-> TRUE, forecasts |-> <<>>]
  ELSE [error |-> FALSE, forecasts |-> ParseTrams(response.trams, 1, <<>>)]

(* Lines 18-50: every failure of the request is raised as LuasAPIError     *)
(* (lines 45-50); otherwise what parse_luas_xml returns or raises.         *)
fetch_luas_forecast(response) ==
  IF response.kind = "transport_error"
  THEN [error |-> TRUE, forecasts |-> <<>>]
  ELSE parse_luas_xml(response)

(* ---------------------- the due time of a forecast -------------------- *)
(* datetime.strptime(text, "%H:%M"): one or two digits of an hour below    *)
(* 24, a colon, one or two digits of a minute below 60, as seconds since   *)
(* midnight; anything else raises ValueError (ok = FALSE).                 *)
StrpTime(text) ==
  LET colons == {i \in 1..Len(text) : text[i] = ":"}
      c      == IF colons = {} THEN 1 ELSE CHOOSE i \in colons : TRUE
      hour   == PyInt(SubSeq(text, 1, c - 1))
      minute == PyInt(SubSeq(text, c + 1, Len(text)))
      Digits(part) == Len(part) \in 1..2
                        /\ \A i \in 1..Len(part) : part[i] \in DOMAIN DigitValue
      valid  == /\ Cardinality(colons) = 1
                /\ Digits(SubSeq(text, 1, c - 1))
                /\ Digits(SubSeq(text, c + 1, Len(text)))
                /\ hour.value <= 23 /\ minute.value <= 59
  IN  [ok |-> valid,
       value |-> IF valid THEN 3600 * hour.value + 60 * minute.value ELSE 0]

(* Lines 96-115: the due time of a tram, parsed when the local clock,      *)
(* datetime.now(), shows local_now: the clock time of its dueTime child on *)
(* the day of the parse, or on the day after when that is in the past;     *)
(* local_now + due_minutes when there is no dueTime, when it is the marker *)
(* "due" or when strptime raises ValueError.                               *)
DueTime(tram, local_now) ==
  LET due_minutes  == DueMinutes(FindText(tram, "dueMinutes", <<"0">>))
      due_time_str == FindText(tram, "dueTime", <<>>)
      parsed       == StrpTime(due_time_str)
      today        == local_now - (local_now % OneDaySeconds) + parsed.value
  IN  IF due_time_str # <<>> /\ Lower(due_time_str) # <<"d", "u", "e">> /\ parsed.ok
      THEN IF today < local_now THEN today + OneDaySeconds ELSE today
      ELSE local_now + 60 * due_minutes

(* datetime.isoformat() of an instant: the date and the time of day;       *)
(* datetime.fromisoformat() of such a text.                                *)
IsoFormat(t) == [date |-> t \div OneDaySeconds, time |-> t % OneDaySeconds]
FromIsoFormat(text) == text.date * OneDaySeconds + text.time

(* Lines 81-125 with the due_time of the forecast (line 123).              *)
ParseTramDue(tram, local_now) ==
  LET parsed == ParseTram(tram)
  IN  IF parsed = <<>> THEN <<>>
      ELSE <<[direction |-> parsed[1].direction,
              destination |-> parsed[1].destination,
              due_minutes |-> parsed[1].due_minutes,
              due_time |-> IsoFormat(DueTime(tram, local_now))]>>

RECURSIVE ParseTramsDue(_, _, _, _)
ParseTramsDue(trams, i, forecasts, local_now) ==
  IF i > Len(trams) THEN forecasts
  ELSE ParseTramsDue(trams, i + 1,
                     forecasts \o ParseTramDue(trams[i], local_now), local_now)

(* Tram elements of the layout in the docstring of parse_luas_xml with     *)
(* their destination and minutes and a dueTime child or none: a clock      *)
(* time, the marker "Due" or a text that is no clock time.                 *)
DueTrams ==
  {[children |-> ("direction" :> DirectionName) @@ ("destination" :> "Broombridge")
                   @@ ("dueMinutes" :> m) @@ t,
    attrib |-> NoFields, parent_name |-> ""] :
     m \in {<<"1">>, <<"0">>},
     t \in {NoFields} \cup
           {"dueTime" :> x : x \in {<<"0", "0", ":", "0", "0">>,
                                    <<"0", "0", ":", "0", "1">>,
                                    <<"D", "u", "e">>, <<"X">>}}}

(* The server's local time is UTC or an hour ahead of it.                  *)
UtcOffsets == {0, 3600}

(* The response the sampler fetches for its first stop, and what           *)
(* fetch_luas_forecast made of it (kept for the properties only).          *)
NoFetch == [response |-> [kind |-> "none", trams |-> <<>>], done |-> FALSE,
            error |-> FALSE, forecasts |-> <<>>]

(* ------------------------------ sampler ------------------------------- *)
(* Lines 228-235.  The forecasts of the specifications that leave the due  *)
(* time of the feed out have no due_time, and their rows no                *)
(* forecast_arrival_time.                                                  *)
LuasSnapshot(id, stop_code, forecast, t) ==
  IF "due_time" \in DOMAIN forecast
  THEN [id |-> id, stop_code |-> stop_code,
        direction |-> forecast.direction, destination |-> forecast.destination,
        forecast_arrival_minutes |-> forecast.due_minutes,
        forecast_arrival_time |-> FromIsoFormat(forecast.due_time),
        recorded_at |-> t]
  ELSE [id |-> id, stop_code |-> stop_code,
        direction |-> forecast.direction, destination |-> forecast.destination,
        forecast_arrival_minutes |-> forecast.due_minutes,
        recorded_at |-> t]

(* Line 234: each row reads the clock, datetime.utcnow(), when it is       *)
(* constructed.  The clock reaches its next second before the row at index *)
(* tickAt is constructed (tickAt = 0: it does not advance inside the       *)
(* loop).                                                                  *)
UtcNow(i, tickAt) == IF tickAt # 0 /\ i >= tickAt THEN now + 1 ELSE now

(* The loop of lines 227-236: one db.add per forecast; the build stops at  *)
(* the first forecast that raises (failAt), 0 = none raises.               *)
RECURSIVE BuildBatch(_, _, _, _, _, _)
BuildBatch(stop_code, forecasts, i, failAt, tickAt, pending) ==
  IF i > Len(forecasts) \/ i = failAt THEN pending
  ELSE BuildBatch(stop_code, forecasts, i + 1, failAt, tickAt,
         Append(pending,
                LuasSnapshot(Len(snapshots) + Len(pending) + 1,
                             stop_code, forecasts[i], UtcNow(i, tickAt))))

(* StoreBatch with the rollback of line 243 missing: the rows added before *)
(* the failure are committed.                                              *)
StoreBatchNoRollback(pending, failed) == snapshots \o pending

(* StoreBatch on a table that holds only the latest forecasts: the commit  *)
(* replaces the rows.                                                      *)
StoreBatchLatestOnly(pending, failed) ==
  IF failed THEN snapshots ELSE pending

(* StoreBatch on a table that lists the newest rows first.                 *)
StoreBatchNewestFirst(pending, failed) ==
  IF failed THEN snapshots ELSE pending \o snapshots

(* Outcome of the session of one stop: commit appends the pending rows,    *)
(* rollback drops them.                                                    *)
StoreBatch(pending, failed) ==
  IF failed THEN snapshots ELSE snapshots \o pending

NoLog == [i \in 1..NumStops |-> [status |-> "none", returned |-> 0]]

(* The last run of calculate_accuracy_from_snapshots (kept for the         *)
(* properties only): its instant, the sizes of the two tables when it      *)
(* started, how it ended, the records it had added to its session, and     *)
(* for a successful run whether the run before it failed.                  *)
NoRun == [at |-> -1, nsnap |-> 0, nacc |-> 0, outcome |-> "none",
          pending |-> 0, after_failure |-> FALSE]

(* The state after the lifespan handler of main.py started the scheduler   *)
(* on empty tables.                                                        *)
InitTables ==
  /\ now = 0
  /\ snapshots = <<>>
  /\ accuracy = <<>>
  /\ pollIdx = 1
  /\ pollBase = 0
  /\ pollLog = NoLog
  /\ pollPrevFailed = FALSE
  /\ lastRun = NoRun
  /\ raised = {}

(* No job is running and no request was made; nothing is scheduled yet.    *)
NoSession == [open |-> FALSE, forecasts |-> <<>>, pending |-> <<>>,
              failed |-> FALSE]
NoEngineSession == [open |-> FALSE, added |-> <<>>]
(* What the read requests so far saw (kept for the properties only): the   *)
(* most rows of each table in one answer that were not committed, and the  *)
(* most rows that were pending in the sessions of the jobs during a read.  *)
NoRead == [by |-> "none", uncommitted_snapshots |-> 0, uncommitted_accuracy |-> 0,
           pending_snapshots |-> 0, pending_accuracy |-> 0]

(* The event loops of the sampler's thread: the one set as the thread's   *)
(* current loop (none, open or closed) and the number of earlier loops     *)
(* that were replaced as the current loop without having been closed.      *)
NoLoops == [current |-> "none", unreferenced |-> 0]

(* The ids of the rows in the order the query of the last engine run      *)
(* returned them, and the pairs the run examined.                          *)
NoExamined == [returned |-> <<>>, pairs |-> <<>>]

InitAux ==
  /\ examined = NoExamined
  /\ instances = [job \in Jobs |-> 0]
  /\ next_run_time = [job \in Jobs |-> 0]
  /\ schedulerState = "running"
  /\ fetchSince = -1
  /\ fireLog = {}
  /\ session = NoSession
  /\ engineSession = NoEngineSession
  /\ readLog = NoRead
  /\ loops = NoLoops

Init == InitTables /\ trackFailures = FALSE /\ fetched = NoFetch /\ InitAux

(* NextStop with the per-stop try of line 217 around the whole loop: a     *)
(* failing stop ends the run.                                              *)
NextStopAbortOnError(i, status) ==
  IF i = NumStops \/ status # "stored" THEN 1 ELSE i + 1

(* Position of the loop of line 216 after the stop at index i: the next    *)
(* stop, or the first stop of the next run after the last one.             *)
NextStop(i, status) == IF i = NumStops THEN 1 ELSE i + 1

(* The log of the run of poll_luas_and_store in progress (kept for the     *)
(* properties only): a new run starts with the first stop, and remembers   *)
(* whether a stop of the run before it failed.                             *)
LogStop(status, returned) ==
  /\ pollBase' = IF pollIdx = 1 THEN Len(snapshots) ELSE pollBase
  /\ pollPrevFailed' =
       IF trackFailures /\ pollIdx = 1
       THEN \E i \in 1..NumStops : pollLog[i].status \in {"fetch_error", "store_error"}
       ELSE pollPrevFailed
  /\ pollLog' = [(IF pollIdx = 1 THEN NoLog ELSE pollLog) EXCEPT ![pollIdx] =
                   [status |-> status, returned |-> returned]]

(* Lines 217-225, 248-251: the fetch of the stop raised LuasAPIError, or   *)
(* creating the event loop or the session raised another exception;        *)
(* nothing is stored and the loop goes on with the next stop.  An          *)
(* exception no clause catches ends the run.                               *)
FetchRaised(class) ==
  LET escapes == ~Handled(PollStopHandlers, class)
  IN  /\ LogStop("fetch_error", 0)
      /\ pollIdx' = IF escapes THEN 1 ELSE NextStop(pollIdx, "fetch_error")
      /\ raised' = Raise("poll_luas_and_store", escapes)
      /\ UNCHANGED <<now, snapshots, accuracy, lastRun, trackFailures>>

PollStopFetchError ==
  /\ \E class \in ExceptionClasses : FetchRaised(class)
  /\ UNCHANGED <<fetched, aux>>

(* Lines 238-246: the end of the session of one stop, with the rows added  *)
(* to it (pending) out of the forecasts the fetch returned: db.commit(),   *)
(* or db.rollback() when building the rows (buildFailed) or the commit     *)
(* (commitFails) raised, and db.close().  The rollback of line 243 may     *)
(* raise too (rollbackFails).                                              *)
EndSession(forecasts, pending, buildFailed) ==
  /\ \E commitFails \in BOOLEAN, rollbackFails \in BOOLEAN :
       LET failed    == buildFailed \/ commitFails
           status    == IF failed THEN "store_error" ELSE "stored"
           escapes   == /\ failed
                        /\ ~Handled(StoreHandlers, "Exception") \/ rollbackFails
                        /\ ~Handled(PollStopHandlers, "Exception")
       IN  /\ rollbackFails => failed
           /\ snapshots' = StoreBatch(pending, failed)
           /\ LogStop(status, Len(forecasts))
           /\ pollIdx' = IF escapes THEN 1 ELSE NextStop(pollIdx, status)
           /\ raised' = Raise("poll_luas_and_store", escapes)
  /\ UNCHANGED <<accuracy, lastRun, trackFailures>>

(* Lines 217-246: the fetch returned forecasts; they are added to one      *)
(* session and committed, or rolled back when building (failAt) or the     *)
(* commit (commitFails) raises.  The rollback of line 243 may raise too    *)
(* (rollbackFails): that exception leaves the inner try through the        *)
(* finally of line 245 and reaches the clauses of the per-stop try.  The   *)
(* clock stands still during the loop (tickAt = 0) or reaches its next     *)
(* second inside it.                                                       *)
StoreForecastsAt(forecasts, tickAt) ==
  /\ Len(snapshots) + Len(forecasts) <= MaxSnapshots
  /\ \E failAt \in 0..Len(forecasts) :
       EndSession(forecasts,
                  BuildBatch(STOPS_TO_POLL[pollIdx], forecasts, 1, failAt, tickAt, <<>>),
                  failAt # 0)
  /\ now' = IF tickAt = 0 THEN now ELSE now + 1

StoreForecasts(forecasts) == StoreForecastsAt(forecasts, 0)

PollStopStore ==
  /\ \E forecasts \in FetchResults : StoreForecasts(forecasts)
  /\ UNCHANGED <<fetched, aux>>

(* ------------------------ reconciliation engine ----------------------- *)
Key(s) == <<s.stop_code, s.direction, s.destination>>

(* RecentSnapshots without the filter of line 50: the whole table.         *)
RecentSnapshotsUnfiltered(t) == snapshots

(* Lines 48-51: the rows of the trailing two hours, in row order.          *)
RecentSnapshots(t) ==
  SelectSeq(snapshots, LAMBDA s : s.recorded_at >= t - SnapshotWindowSeconds)

(* Lines 62-67: the keys of tram_history in order of first appearance.     *)
RECURSIVE TrackKeys(_, _, _)
TrackKeys(rows, i, keys) ==
  IF i > Len(rows) THEN keys
  ELSE TrackKeys(rows, i + 1,
         IF \E k \in 1..Len(keys) : keys[k] = Key(rows[i])
         THEN keys ELSE Append(keys, Key(rows[i])))

(* TrackOf without the grouping of lines 62-67: every row in every track.   *)
TrackOfAllRows(rows, key) == rows

(* Lines 62-67: the rows of one key of tram_history, in the order the      *)
(* query returned them.                                                    *)
TrackOf(rows, key) == SelectSeq(rows, LAMBDA s : Key(s) = key)

(* SortByRecordedAt with the sort of line 76 missing: the rows of a track  *)
(* stay in the order the query returned them.                              *)
SortByRecordedAtOff(polls, i, sorted) == polls

(* Line 76: list.sort(key=recorded_at), a stable sort.                     *)
RECURSIVE InsertSorted(_, _)
InsertSorted(sorted, s) ==
  IF sorted = <<>> THEN <<s>>
  ELSE IF sorted[Len(sorted)].recorded_at <= s.recorded_at THEN Append(sorted, s)
  ELSE Append(InsertSorted(SubSeq(sorted, 1, Len(sorted) - 1), s), sorted[Len(sorted)])

RECURSIVE SortByRecordedAt(_, _, _)
SortByRecordedAt(polls, i, sorted) ==
  IF i > Len(polls) THEN sorted
  ELSE SortByRecordedAt(polls, i + 1, InsertSorted(sorted, polls[i]))

(* TooFarApart with the threshold taken in polls of 30 s instead of        *)
(* minutes' seconds: 2 minutes read as 150 s.                              *)
TooFarApartLoose(prev_poll, curr_poll) ==
  curr_poll.recorded_at - prev_poll.recorded_at > 150

(* Lines 94-98: the poll-gap filter.                                       *)
TooFarApart(prev_poll, curr_poll) ==
  curr_poll.recorded_at - prev_poll.recorded_at > MaxPollGapSeconds

(* IsArrival as routes.calculate_accuracy matches (routes.py:352): any     *)
(* positive forecast followed by 0.                                        *)
IsArrivalAnyToZero(prev_poll, curr_poll) ==
  prev_poll.forecast_arrival_minutes > 0 /\ curr_poll.forecast_arrival_minutes = 0

(* IsArrival without the two near-arrival branches.                        *)
IsArrivalImminentOnly(prev_poll, curr_poll) ==
  prev_poll.forecast_arrival_minutes = 1 /\ curr_poll.forecast_arrival_minutes = 0

(* Lines 105-131: the matched transitions.                                 *)
IsArrival(prev_poll, curr_poll) ==
  \/ prev_poll.forecast_arrival_minutes = 1 /\ curr_poll.forecast_arrival_minutes = 0
  \/ prev_poll.forecast_arrival_minutes = 2 /\ curr_poll.forecast_arrival_minutes = 1
  \/ prev_poll.forecast_arrival_minutes = 3 /\ curr_poll.forecast_arrival_minutes = 2

(* AccuracyDelta with the estimate taken over the whole gap instead of its *)
(* midpoint.                                                               *)
AccuracyDeltaFullGap(prev_poll, curr_poll) ==
  PyRound((curr_poll.recorded_at - prev_poll.recorded_at)
            - 60 * prev_poll.forecast_arrival_minutes, 60)

(* Lines 95, 140, 144: int(round(gap/60/2 - forecast)), as a rational over *)
(* 120 seconds.                                                            *)
AccuracyDelta(prev_poll, curr_poll) ==
  PyRound((curr_poll.recorded_at - prev_poll.recorded_at)
            - 120 * prev_poll.forecast_arrival_minutes, 120)

(* ActualMinutes taken over the whole gap, as routes.calculate_accuracy    *)
(* takes it (routes.py:355), rounded.                                      *)
ActualMinutesFullGap(prev_poll, curr_poll) ==
  PyRound(curr_poll.recorded_at - prev_poll.recorded_at, 60)

(* Line 170: int(round(gap/60/2)).                                         *)
ActualMinutes(prev_poll, curr_poll) ==
  PyRound(curr_poll.recorded_at - prev_poll.recorded_at, 120)

(* Implausible with the bound of an earlier revision, 60 minutes.          *)
ImplausibleLoose(accuracy_delta) == Abs(accuracy_delta) > 60

(* Line 147: the sanity check.                                             *)
Implausible(accuracy_delta) == Abs(accuracy_delta) > SanityBound

(* Existing with the query of lines 153-159 finding nothing.               *)
ExistingNever(prev_poll, t) == FALSE

(* Lines 153-159: the dedup query; autoflush is off (database.py:23), so   *)
(* it sees the committed rows only.                                        *)
Existing(prev_poll, t) ==
  \E k \in 1..Len(accuracy) :
    /\ accuracy[k].stop_code = prev_poll.stop_code
    /\ accuracy[k].direction = prev_poll.direction
    /\ accuracy[k].destination = prev_poll.destination
    /\ accuracy[k].forecasted_minutes = prev_poll.forecast_arrival_minutes
    /\ accuracy[k].calculated_at >= t - DedupWindowSeconds

(* Lines 165-173; pair is the lineage of the record (the ids of the two    *)
(* snapshots it was derived from), kept for the properties only.           *)
LuasAccuracy(prev_poll, curr_poll, t) ==
  [stop_code |-> prev_poll.stop_code, direction |-> prev_poll.direction,
   destination |-> prev_poll.destination,
   forecasted_minutes |-> prev_poll.forecast_arrival_minutes,
   actual_minutes |-> ActualMinutes(prev_poll, curr_poll),
   accuracy_delta |-> AccuracyDelta(prev_poll, curr_poll),
   calculated_at |-> t,
   pair |-> <<prev_poll.id, curr_poll.id>>,
   inserted_by |-> "calculate_accuracy_from_snapshots"]

(* Lines 91-176: the body of the pair loop, the records it adds.           *)
ExaminePair(prev_poll, curr_poll, t) ==
  IF TooFarApart(prev_poll, curr_poll) THEN <<>>
  ELSE IF ~IsArrival(prev_poll, curr_poll) THEN <<>>
  ELSE IF Implausible(AccuracyDelta(prev_poll, curr_poll)) THEN <<>>
  ELSE IF Existing(prev_poll, t) THEN <<>>
  ELSE <<LuasAccuracy(prev_poll, curr_poll, t)>>

(* Line 90: for i in range(1, len(polls)).                                 *)
RECURSIVE ScanTrack(_, _, _, _)
ScanTrack(polls, i, t, added) ==
  IF i > Len(polls) THEN added
  ELSE ScanTrack(polls, i + 1, t, added \o ExaminePair(polls[i - 1], polls[i], t))

(* Line 74: for each track of tram_history.                                *)
RECURSIVE ScanTracks(_, _, _, _, _)
ScanTracks(rows, keys, k, t, added) ==
  IF k > Len(keys) THEN added
  ELSE ScanTracks(rows, keys, k + 1, t,
         ScanTrack(SortByRecordedAt(TrackOf(rows, keys[k]), 1, <<>>), 2, t, added))

(* Lines 60-176: the records one cycle adds to its session out of the rows *)
(* its query returned.                                                     *)
CycleRecordsOf(rows, t) == ScanTracks(rows, TrackKeys(rows, 1, <<>>), 1, t, <<>>)

(* The records one cycle adds to its session.                              *)
CycleRecords(t) == CycleRecordsOf(RecentSnapshots(t), t)

(* Lines 90-92: the pairs (prev_poll, curr_poll) the loop takes out of one *)
(* sorted track, as the ids of the two rows.                               *)
RECURSIVE PairsOfTrack(_, _, _)
PairsOfTrack(polls, i, pairs) ==
  IF i > Len(polls) THEN pairs
  ELSE PairsOfTrack(polls, i + 1, Append(pairs, <<polls[i - 1].id, polls[i].id>>))

(* Lines 74-92: the pairs one cycle examines, track by track.              *)
RECURSIVE PairsOfTracks(_, _, _, _)
PairsOfTracks(rows, keys, k, pairs) ==
  IF k > Len(keys) THEN pairs
  ELSE PairsOfTracks(rows, keys, k + 1,
         PairsOfTrack(SortByRecordedAt(TrackOf(rows, keys[k]), 1, <<>>), 2, pairs))

ExaminedPairs(rows) == PairsOfTracks(rows, TrackKeys(rows, 1, <<>>), 1, <<>>)

(* The commit of line 185 with a failure leaving the first pending record *)
(* in the table.                                                           *)
CommittedPartial(added, outcome) ==
  IF outcome = "ok" \/ added = <<>> THEN added ELSE <<added[1]>>

(* Lines 182-206: the records of the session that reach the table: all of  *)
(* them when db.commit() returns, none when it or an earlier step raised   *)
(* (rollback of line 190 or 202, close of line 197 or 203).                *)
Committed(added, outcome) == IF outcome = "ok" THEN added ELSE <<>>

RunFailures == {"query_error", "commit_error"}

(* Lines 181-206: the end of one run of calculate_accuracy_from_snapshots  *)
(* with the records it added to its session.  outcome "ok": the store      *)
(* works; "query_error": a query raised (line 199); "commit_error":        *)
(* db.commit() raises (line 187).                                          *)
EndCycle(added, outcome) ==
  LET escapes ==
        \/ outcome = "query_error" /\ ~Handled(ReconcileHandlers, "Exception")
        \/ /\ outcome = "commit_error"
           /\ ~Handled(CommitHandlers, "Exception")
           /\ ~Handled(ReconcileHandlers, "Exception")
  IN  /\ Len(accuracy) + Len(added) <= MaxAccuracy
      /\ outcome = "commit_error" => Len(added) > 0
      /\ accuracy' = accuracy \o Committed(added, outcome)
      /\ lastRun' = IF outcome = "ok" \/ trackFailures
                     THEN [at |-> now, nsnap |-> Len(snapshots),
                           nacc |-> Len(accuracy),
                           outcome |-> outcome, pending |-> Len(added),
                           after_failure |-> /\ outcome = "ok"
                                             /\ lastRun.outcome \in RunFailures]
                     ELSE lastRun
      /\ raised' = Raise("calculate_accuracy_from_snapshots", escapes)
      /\ UNCHANGED <<now, snapshots, pollIdx, pollBase, pollLog, pollPrevFailed,
                     trackFailures, fetched>>

(* Lines 44-206: one run of calculate_accuracy_from_snapshots on the rows  *)
(* its query of lines 49-51 returned.                                      *)
ReconcileOn(rows, outcome) ==
  EndCycle(IF outcome = "query_error" THEN <<>> ELSE CycleRecordsOf(rows, now),
           outcome)

(* A run whose query returns the rows in row order.                        *)
Reconcile ==
  /\ \E outcome \in {"ok"} \cup RunFailures :
       ReconcileOn(RecentSnapshots(now), outcome)
  /\ UNCHANGED aux

(* The clock advances to a later instant.                                  *)
Tick ==
  \E t \in Instants :
    /\ t > now
    /\ \A u \in Instants : u > now => t <= u
    /\ now' = t
    /\ UNCHANGED <<snapshots, accuracy, pollIdx, pollBase, pollLog, pollPrevFailed,
                   lastRun, raised, trackFailures, fetched, aux>>

Next ==
  \/ PollStopFetchError
  \/ PollStopStore
  \/ Reconcile
  \/ Tick

Spec == Init /\ [][Next]_vars

(* The jobs over the first poll interval (line 267: 30 seconds), with the  *)
(* failed runs recorded.                                                   *)
InitFaults == InitTables /\ trackFailures = TRUE /\ fetched = NoFetch /\ InitAux

TickFirstInterval == now = 0 /\ Tick

NextFaults ==
  \/ PollStopFetchError
  \/ PollStopStore
  \/ Reconcile
  \/ TickFirstInterval

SpecFaults == InitFaults /\ [][NextFaults]_vars

(* ------------------- the sampler on a clock that ticks ---------------- *)
(* Lines 217-246 with the clock reaching its next second inside the loop   *)
(* of lines 227-236, after at least one row was constructed.               *)
PollStopStoreTicking ==
  /\ now \in Instants
  /\ \E forecasts \in FetchResults :
       \E tickAt \in 2..Len(forecasts) : StoreForecastsAt(forecasts, tickAt)
  /\ UNCHANGED <<fetched, aux>>

(* The clock reaches the instant of the next firing of the sampler.        *)
TickToNextPoll == now < 30 /\ Tick

NextClock ==
  \/ PollStopFetchError
  \/ PollStopStore
  \/ PollStopStoreTicking
  \/ Reconcile
  \/ TickToNextPoll

SpecClock == Init /\ [][NextClock]_vars

(* ------------------ the sampler and its event loops ------------------- *)
(* Lines 219-220: loop = asyncio.new_event_loop(); set_event_loop(loop).   *)
(* The new loop replaces the current loop of the thread, which is no       *)
(* longer referenced; state tells how lines 221-222 leave the new loop.    *)
SetEventLoop(state) ==
  [current |-> state,
   unreferenced |-> loops.unreferenced + IF loops.current = "open" THEN 1 ELSE 0]

(* Lines 219-222, 248-251: run_until_complete raises LuasAPIError (line    *)
(* 221), and loop.close() of line 222 is not reached; or SessionLocal()    *)
(* raises another exception (line 225), after the loop was closed.         *)
PollStopLoopFetchError ==
  /\ loops.unreferenced < MaxLoops
  /\ \E class \in ExceptionClasses :
       /\ FetchRaised(class)
       /\ loops' = SetEventLoop(IF class = "LuasAPIError" THEN "open" ELSE "closed")
  /\ UNCHANGED <<fetched, examined, instances, next_run_time, schedulerState,
                 fetchSince, fireLog, session, engineSession, readLog>>

(* Lines 219-246: the fetch returns, the loop is closed (line 222) and the *)
(* forecasts are stored.                                                   *)
PollStopLoopStore ==
  /\ loops.unreferenced < MaxLoops
  /\ \E forecasts \in FetchResults : StoreForecasts(forecasts)
  /\ loops' = SetEventLoop("closed")
  /\ UNCHANGED <<fetched, examined, instances, next_run_time, schedulerState,
                 fetchSince, fireLog, session, engineSession, readLog>>

(* The garbage collector finalises a loop that is no longer referenced,    *)
(* which closes it.                                                        *)
FinalizeLoop ==
  /\ loops.unreferenced > 0
  /\ loops' = [loops EXCEPT !.unreferenced = @ - 1]
  /\ UNCHANGED <<now, snapshots, accuracy, pollIdx, pollBase, pollLog,
                 pollPrevFailed, lastRun, raised, trackFailures, fetched,
                 examined, instances, next_run_time, schedulerState, fetchSince,
                 fireLog, session, engineSession, readLog>>

NextLoops ==
  \/ PollStopLoopFetchError
  \/ PollStopLoopStore
  \/ FinalizeLoop
  \/ TickToNextPoll

SpecLoops == Init /\ [][NextLoops]_vars

(* ------------------ the sampler on the feed's responses --------------- *)
(* Lines 217-251 on a given response of the feed: fetch_luas_forecast      *)
(* raises, and the stop is skipped ...                                     *)
PollStopFeedError ==
  LET result == fetch_luas_forecast(fetched.response)
  IN  /\ fetched.response.kind # "none" /\ ~fetched.done
      /\ result.error
      /\ fetched' = [fetched EXCEPT !.done = TRUE, !.error = TRUE]
      /\ FetchRaised("LuasAPIError")
      /\ UNCHANGED aux

(* ... or returns its forecasts, and they are stored.                      *)
PollStopFeedStore ==
  LET result == fetch_luas_forecast(fetched.response)
  IN  /\ fetched.response.kind # "none" /\ ~fetched.done
      /\ ~result.error
      /\ fetched' = [fetched EXCEPT !.done = TRUE, !.forecasts = result.forecasts]
      /\ StoreForecasts(result.forecasts)
      /\ UNCHANGED aux

(* The first stop of the first sampler run, on every response of the feed. *)
InitFeed ==
  /\ InitTables
  /\ trackFailures = FALSE
  /\ fetched \in {[NoFetch EXCEPT !.response = r] : r \in Responses}
  /\ InitAux

NextFeed ==
  \/ PollStopFeedError
  \/ PollStopFeedStore

SpecFeed == InitFeed /\ [][NextFeed]_vars

(* ----------------- the sampler and the due time of the feed ----------- *)
(* Lines 219-222: the fetch of the first stop returns; parse_luas_xml read *)
(* the local clock for the due times.                                      *)
PollStopFetchDue ==
  /\ fetched.response.kind # "none" /\ ~fetched.done
  /\ \E offset \in UtcOffsets :
       fetched' = [fetched EXCEPT
                     !.done = TRUE,
                     !.forecasts = ParseTramsDue(fetched.response.trams, 1, <<>>,
                                                 now + offset)]
  /\ UNCHANGED <<now, snapshots, accuracy, pollIdx, pollBase, pollLog,
                 pollPrevFailed, lastRun, raised, trackFailures, aux>>

(* Lines 225-246: the forecasts are stored.                                *)
PollStopStoreDue ==
  /\ fetched.done /\ pollIdx = 1 /\ pollLog[1].status = "none"
  /\ \E tickAt \in {0} \cup 2..Len(fetched.forecasts) :
       StoreForecastsAt(fetched.forecasts, tickAt)
  /\ UNCHANGED <<fetched, aux>>

(* The clock reaches its next second, before the parse or between the      *)
(* parse and the session.                                                  *)
TickSecond ==
  /\ now < MaxDelaySeconds
  /\ pollLog[1].status = "none"
  /\ now' = now + 1
  /\ UNCHANGED <<snapshots, accuracy, pollIdx, pollBase, pollLog, pollPrevFailed,
                 lastRun, raised, trackFailures, fetched, aux>>

(* The first stop of the first sampler run, on the responses that carry    *)
(* due times.                                                              *)
InitDue ==
  /\ InitTables
  /\ trackFailures = FALSE
  /\ fetched \in {[NoFetch EXCEPT !.response = [kind |-> "document", trams |-> t]] :
                    t \in SeqsUpTo(DueTrams, MaxTrams)}
  /\ InitAux

NextDue ==
  \/ PollStopFetchDue
  \/ PollStopStoreDue
  \/ TickSecond

SpecDue == InitDue /\ [][NextDue]_vars

(* ------------------- POST /accuracy/calculate (routes.py) ------------- *)
ApiWindowSeconds == 3600

(* Python's int() on the rational num/den, den > 0: truncation toward 0.   *)
IntTrunc(num, den) ==
  IF num >= 0 THEN num \div den ELSE -((-num) \div den)

(* routes.py:321-325: the rows of the trailing hour, in row order.         *)
ApiSnapshots(t) ==
  SelectSeq(snapshots, LAMBDA s : s.recorded_at >= t - ApiWindowSeconds)

(* routes.py:352-353: a positive forecast followed by 0.                   *)
ApiIsArrival(prev, curr) ==
  prev.forecast_arrival_minutes > 0 /\ curr.forecast_arrival_minutes = 0

(* routes.py:355-370: the record of a matched pair; time_elapsed is the    *)
(* whole gap in minutes.                                                   *)
ApiAccuracy(prev, curr, t) ==
  [stop_code |-> prev.stop_code, direction |-> prev.direction,
   destination |-> prev.destination,
   forecasted_minutes |-> prev.forecast_arrival_minutes,
   actual_minutes |-> IntTrunc(curr.recorded_at - prev.recorded_at, 60),
   accuracy_delta |->
     IntTrunc((curr.recorded_at - prev.recorded_at)
                - 60 * prev.forecast_arrival_minutes, 60),
   calculated_at |-> t,
   pair |-> <<prev.id, curr.id>>,
   inserted_by |-> "calculate_accuracy"]

(* routes.py:346-371: the pair loop over one sorted track.                 *)
RECURSIVE ApiScanTrack(_, _, _, _)
ApiScanTrack(poll_history, i, t, accuracy_records) ==
  IF i > Len(poll_history) THEN accuracy_records
  ELSE ApiScanTrack(poll_history, i + 1, t,
         IF ApiIsArrival(poll_history[i - 1], poll_history[i])
         THEN Append(accuracy_records,
                     ApiAccuracy(poll_history[i - 1], poll_history[i], t))
         ELSE accuracy_records)

(* routes.py:341-343: for each track of tram_history.                      *)
RECURSIVE ApiScanTracks(_, _, _, _, _)
ApiScanTracks(rows, keys, k, t, accuracy_records) ==
  IF k > Len(keys) THEN accuracy_records
  ELSE ApiScanTracks(rows, keys, k + 1, t,
         ApiScanTrack(SortByRecordedAt(TrackOf(rows, keys[k]), 1, <<>>), 2, t,
                      accuracy_records))

ApiRecords(t) ==
  LET rows == ApiSnapshots(t)
  IN  ApiScanTracks(rows, TrackKeys(rows, 1, <<>>), 1, t, <<>>)

(* routes.py:304-388: one request POST /accuracy/calculate.  It adds its   *)
(* records with db.add_all and commits (lines 374-376); when a query or    *)
(* the commit raises it rolls back and answers 500 (lines 385-388).        *)
calculate_accuracy ==
  \E raises \in BOOLEAN :
    LET accuracy_records == IF raises THEN <<>> ELSE ApiRecords(now)
    IN  /\ Len(accuracy) + Len(accuracy_records) <= MaxAccuracy
        /\ accuracy' = accuracy \o accuracy_records
        /\ UNCHANGED <<now, snapshots, pollIdx, pollBase, pollLog, pollPrevFailed,
                       lastRun, raised, trackFailures, fetched, aux>>

(* The jobs, the clock and the requests to POST /accuracy/calculate.       *)
NextApi ==
  \/ Next
  \/ calculate_accuracy

SpecApi == Init /\ [][NextApi]_vars

(* ------------------ the routes of GET requests (routes.py) ------------ *)
(* Some of the codes of LUAS_STOPS (routes.py:16-90).                      *)
LUAS_STOPS == {"bro", "cab", "phi", "tal"}

DefaultLimit == 3

(* The routes of the router for GET under /stops and /arrivals, in the     *)
(* order the decorators register them; a path is the sequence of its       *)
(* segments, "{stop_code}" is the path parameter.                          *)
Routes ==
  <<[path |-> <<"stops">>, endpoint |-> "get_stops"],
    [path |-> <<"arrivals", "{stop_code}">>, endpoint |-> "get_arrivals"],
    [path |-> <<"arrivals", "cabra">>, endpoint |-> "get_cabra_arrivals"]>>

(* The route matches the path of the request: the same number of segments, *)
(* each equal to the route's or taken by its parameter.                    *)
MatchesPath(route, path) ==
  /\ Len(route.path) = Len(path)
  /\ \A i \in 1..Len(path) :
       route.path[i] = path[i] \/ route.path[i] = "{stop_code}"

(* The router serves a request with the first registered route that        *)
(* matches (0: none, the answer is 404).                                   *)
Dispatch(routes, path) ==
  LET matching == {i \in 1..Len(routes) : MatchesPath(routes[i], path)}
  IN  IF matching = {} THEN 0
      ELSE CHOOSE i \in matching : \A j \in matching : i <= j

(* str.lower() on the stop codes requests are made with.                   *)
LowerCode(stop_code) == IF stop_code = "CAB" THEN "cab" ELSE stop_code

(* routes.py:168-170: ORDER BY forecast_arrival_minutes.                   *)
RECURSIVE OrderByMinutes(_, _)
OrderByMinutes(rows, sorted) ==
  IF rows = <<>> THEN sorted
  ELSE LET first == Len(SelectSeq(sorted, LAMBDA r :
                      r.forecast_arrival_minutes <= Head(rows).forecast_arrival_minutes))
       IN  OrderByMinutes(Tail(rows),
                          SubSeq(sorted, 1, first) \o <<Head(rows)>>
                            \o SubSeq(sorted, first + 1, Len(sorted)))

(* routes.py:131-197: the answer of get_arrivals: 400 for a code that is   *)
(* not in LUAS_STOPS; otherwise the forecasts of the rows of the stop      *)
(* within a second of its latest row, nearest first, at most limit.        *)
get_arrivals(stop_code, limit) ==
  LET code   == LowerCode(stop_code)
      ofStop == SelectSeq(snapshots, LAMBDA r : r.stop_code = code)
      latest_snapshot ==
        CHOOSE t \in {ofStop[i].recorded_at : i \in 1..Len(ofStop)} :
          \A i \in 1..Len(ofStop) : ofStop[i].recorded_at <= t
      forecasts ==
        OrderByMinutes(SelectSeq(ofStop, LAMBDA r :
                         /\ r.recorded_at >= latest_snapshot - 1
                         /\ r.recorded_at <= latest_snapshot + 1), <<>>)
  IN  IF code \notin LUAS_STOPS
      THEN [status |-> 400, stop_code |-> code, last_updated |-> now,
            next_arrivals |-> <<>>]
      ELSE IF ofStop = <<>>
      THEN [status |-> 200, stop_code |-> code, last_updated |-> now,
            next_arrivals |-> <<>>]
      ELSE [status |-> 200, stop_code |-> code, last_updated |-> latest_snapshot,
            next_arrivals |->
              [i \in 1..(IF Len(forecasts) < limit THEN Len(forecasts) ELSE limit) |->
                 forecasts[i].forecast_arrival_minutes]]

(* routes.py:200-207.                                                      *)
get_cabra_arrivals(limit) == get_arrivals("cab", limit)

(* The answer of the endpoint of a route to a request for path.            *)
Answer(endpoint, path) ==
  IF endpoint = "get_arrivals" THEN get_arrivals(path[2], DefaultLimit)
  ELSE IF endpoint = "get_cabra_arrivals" THEN get_cabra_arrivals(DefaultLimit)
  ELSE [status |-> 200, stops |-> LUAS_STOPS]

(* A GET request: the router dispatches it and the endpoint answers.  The  *)
(* request, the endpoint that served it and its answer are kept in readLog *)
(* for the properties.                                                     *)
GetRequest ==
  /\ \E path \in {<<"stops">>, <<"arrivals">>, <<"arrivals", "cab">>,
                   <<"arrivals", "CAB">>, <<"arrivals", "tal">>,
                   <<"arrivals", "cabra">>, <<"arrivals", "xyz">>} :
       LET route == Dispatch(Routes, path)
       IN  readLog' =
             IF route = 0
             THEN [by |-> "not_found", path |-> path, answer |-> [status |-> 404]]
             ELSE [by |-> Routes[route].endpoint, path |-> path,
                   answer |-> Answer(Routes[route].endpoint, path)]
  /\ UNCHANGED <<now, snapshots, accuracy, pollIdx, pollBase, pollLog,
                 pollPrevFailed, lastRun, raised, trackFailures, fetched,
                 examined, instances, next_run_time, schedulerState, fetchSince,
                 fireLog, session, engineSession, loops>>

(* The sampler, the clock up to the next poll and the GET requests.        *)
NextRoutes ==
  \/ PollStopFetchError
  \/ PollStopStore
  \/ TickToNextPoll
  \/ GetRequest

SpecRoutes == Init /\ [][NextRoutes]_vars

(* ---------------- the engine over a given Snapshot Store -------------- *)
(* calculate_accuracy_from_snapshots is a function of the two tables and   *)
(* the clock.  SpecScan starts it on every store of two rows 0..MaxScanGap *)
(* seconds apart and of three rows with gaps drawn from ScanGaps, written  *)
(* by earlier sampler runs (the last of which stored nothing), with an     *)
(* empty Accuracy Store and the clock at the last row.                     *)
ScanGaps == {0, 30, 60, 120, 150}

ScanTimes ==
  {<<0, g>> : g \in 0..MaxScanGap}
    \cup {<<0, g1, g1 + g2>> : g1 \in ScanGaps, g2 \in ScanGaps}

ScanStore(times, stops, mins) ==
  [i \in 1..Len(times) |->
     LuasSnapshot(i, stops[i],
                  [direction |-> "Inbound", destination |-> "Broombridge",
                   due_minutes |-> mins[i]],
                  times[i])]

InitScan ==
  \E times \in ScanTimes :
    \E stops \in [1..Len(times) -> {STOPS_TO_POLL[i] : i \in 1..NumStops}],
       mins \in [1..Len(times) -> Minutes] :
      /\ snapshots = ScanStore(times, stops, mins)
      /\ now = times[Len(times)]
      /\ accuracy = <<>>
      /\ pollIdx = 1
      /\ pollBase = Len(times)
      /\ pollLog = [i \in 1..NumStops |-> [status |-> "fetch_error", returned |-> 0]]
      /\ pollPrevFailed = FALSE
      /\ lastRun = NoRun
      /\ raised = {}
      /\ trackFailures = FALSE
      /\ fetched = NoFetch
      /\ InitAux

NextScan ==
  \/ Reconcile
  \/ Tick

SpecScan == InitScan /\ [][NextScan]_vars

(* --------------- the engine over a store of four polls --------------- *)
(* The engine on the stores four sampler cycles wrote, one row each, one   *)
(* or two poll intervals apart, with forecasts of 0..SanityBound minutes   *)
(* and an empty Accuracy Store.                                            *)
InitDedup ==
  \E gap \in {PollIntervalSeconds, 2 * PollIntervalSeconds} :
    \E stops \in [1..4 -> {STOPS_TO_POLL[i] : i \in 1..NumStops}],
       mins \in [1..4 -> 0..SanityBound] :
      /\ snapshots = ScanStore(<<0, gap, 2 * gap, 3 * gap>>, stops, mins)
      /\ now = 3 * gap
      /\ accuracy = <<>>
      /\ pollIdx = 1
      /\ pollBase = 4
      /\ pollLog = [i \in 1..NumStops |-> [status |-> "fetch_error", returned |-> 0]]
      /\ pollPrevFailed = FALSE
      /\ lastRun = NoRun
      /\ raised = {}
      /\ trackFailures = FALSE
      /\ fetched = NoFetch
      /\ InitAux

SpecDedup == InitDedup /\ [][NextScan]_vars

(* ---------------- the engine on rows returned in any order ------------ *)
(* Lines 49-51: the query has no ORDER BY; the rows of the window come in  *)
(* the order the store chooses, rows[order[1]], rows[order[2]], ...        *)
Reorder(rows, order) == [i \in 1..Len(rows) |-> rows[order[i]]]

(* One run of calculate_accuracy_from_snapshots whose query returns the    *)
(* rows in any order; what a successful run read and examined is kept for  *)
(* the properties, as lastRun is.                                          *)
ReconcileAnyOrder ==
  \E order \in Permutations(1..Len(RecentSnapshots(now))),
     outcome \in {"ok"} \cup RunFailures :
    LET rows == Reorder(RecentSnapshots(now), order)
    IN  /\ ReconcileOn(rows, outcome)
        /\ examined' = IF outcome = "ok"
                        THEN [returned |-> [i \in 1..Len(rows) |-> rows[i].id],
                              pairs |-> ExaminedPairs(rows)]
                        ELSE examined
        /\ UNCHANGED <<instances, next_run_time, schedulerState, fetchSince,
                       fireLog, session, engineSession, readLog, loops>>

(* The stores of three rows of InitScan with forecasts of 0 to 2 minutes.  *)
InitOrder ==
  /\ InitScan
  /\ Len(snapshots) = 3
  /\ \A i \in 1..3 : snapshots[i].forecast_arrival_minutes <= 2

NextOrder ==
  \/ ReconcileAnyOrder
  \/ Tick

SpecOrder == InitOrder /\ [][NextOrder]_vars

(* ------------------- the jobs under the scheduler's clock ------------- *)
(* start_luas_polling adds the two jobs with interval triggers and no      *)
(* other option (lines 264-285): the first firing of a job is due one      *)
(* interval after the start, every later one an interval after the one     *)
(* before, whatever the runs take; a job runs in a worker thread of the    *)
(* scheduler's executor, which counts the running instances of each job    *)
(* and, as max_instances is not given, admits one.                         *)
Interval ==
  [job \in Jobs |-> IF job = "poll_luas_and_store" THEN PollIntervalSeconds
                    ELSE AccuracyIntervalSeconds]

(* The executor admitting any number of instances of a job.                *)
MaxInstancesReachedNever(job) == FALSE

(* The executor's test when a firing is submitted.                         *)
MaxInstancesReached(job) == instances[job] >= MaxInstances

(* A scheduler that goes on processing firings after shutdown().           *)
AcceptsFiringsAlways == TRUE

(* main.py:21, 27: the scheduler processes firings from scheduler.start()  *)
(* until scheduler.shutdown().                                             *)
AcceptsFirings == schedulerState = "running"

(* A firing of job is processed: the executor starts a run, or skips the   *)
(* firing when the job has its running instance.                           *)
Admit(job) ==
  /\ AcceptsFirings
  /\ IF MaxInstancesReached(job)
     THEN /\ fireLog' = fireLog \cup {[job |-> job, at |-> now, outcome |-> "skipped"]}
          /\ UNCHANGED instances
     ELSE /\ fireLog' = fireLog \cup {[job |-> job, at |-> now, outcome |-> "started"]}
          /\ instances' = [instances EXCEPT ![job] = @ + 1]

(* The firing of job that is due now: it starts a run in a worker thread,  *)
(* or it is skipped when the job's earlier run has not returned.  The next *)
(* firing is due one interval later in both cases.                         *)
Submit(job) ==
  /\ now = next_run_time[job]
  /\ next_run_time' = [next_run_time EXCEPT ![job] = now + Interval[job]]
  /\ Admit(job)

Fire ==
  /\ \E job \in Jobs : Submit(job)
  /\ UNCHANGED <<now, snapshots, accuracy, pollIdx, pollBase, pollLog,
                 pollPrevFailed, lastRun, raised, trackFailures, fetched,
                 examined, schedulerState, fetchSince, session, engineSession,
                 readLog, loops>>

(* The run returns from the job function: the executor counts it out.      *)
RunReturned(job) == [instances EXCEPT ![job] = @ - 1]

(* Position of the loop of line 216 in a run over the first MaxPolledStops *)
(* stops of the list.                                                      *)
NextPolledStop(i) == IF i = MaxPolledStops THEN 1 ELSE i + 1

(* Lines 219-221: the run starts the fetch of its next stop.               *)
PollStopBegin ==
  /\ instances["poll_luas_and_store"] >= 1
  /\ fetchSince = -1
  /\ fetchSince' = now
  /\ UNCHANGED <<now, snapshots, accuracy, pollIdx, pollBase, pollLog,
                 pollPrevFailed, lastRun, raised, trackFailures, fetched,
                 examined, instances, next_run_time, schedulerState, fireLog,
                 session, engineSession, readLog, loops>>

(* The stop is done: the loop goes on, and the run returns after the last  *)
(* stop or when an exception leaves the loop.                              *)
PollStopDone(escapes) ==
  /\ fetchSince' = -1
  /\ pollIdx' = IF escapes THEN 1 ELSE NextPolledStop(pollIdx)
  /\ raised' = Raise("poll_luas_and_store", escapes)
  /\ instances' = IF pollIdx' = 1 THEN RunReturned("poll_luas_and_store")
                  ELSE instances
  /\ UNCHANGED <<now, snapshots, accuracy, pollBase, pollLog, pollPrevFailed,
                 lastRun, trackFailures, fetched, examined, next_run_time,
                 schedulerState, fireLog, session, engineSession, readLog,
                 loops>>

(* luas_client.py:30 and lines 45-50, scheduler.py:248-249: the feed does  *)
(* not answer; the fetch raises LuasAPIError when the timeout of the       *)
(* client has passed, and the stop is skipped.                             *)
PollStopTimeout ==
  /\ instances["poll_luas_and_store"] >= 1
  /\ fetchSince >= 0
  /\ now = fetchSince + FetchTimeoutSeconds
  /\ PollStopDone(~Handled(PollStopHandlers, "LuasAPIError"))

(* Lines 221-246: the feed answers at once that no tram is forecast; the   *)
(* session of the stop has no row to add and its commit changes nothing.   *)
PollStopNoTrams ==
  /\ instances["poll_luas_and_store"] >= 1
  /\ fetchSince = now
  /\ PollStopDone(FALSE)

(* One run of calculate_accuracy_from_snapshots in a worker thread.        *)
ReconcileJob ==
  /\ instances["calculate_accuracy_from_snapshots"] >= 1
  /\ \E outcome \in {"ok"} \cup RunFailures :
       ReconcileOn(RecentSnapshots(now), outcome)
  /\ instances' = RunReturned("calculate_accuracy_from_snapshots")
  /\ UNCHANGED <<examined, next_run_time, schedulerState, fetchSince, fireLog,
                 session, engineSession, readLog, loops>>

(* The instants at which something is due: the next firings and the        *)
(* timeout of the fetch in flight.                                         *)
DueTimes ==
  {next_run_time[job] : job \in Jobs}
    \cup (IF fetchSince >= 0 THEN {fetchSince + FetchTimeoutSeconds} ELSE {})

(* The clock reaches the next instant at which something is due.  What is  *)
(* due now happens first; a run computes without the clock advancing and   *)
(* takes time only while it waits for the feed.                            *)
TickSched ==
  /\ \A t \in DueTimes : t > now
  /\ instances["calculate_accuracy_from_snapshots"] = 0
  /\ instances["poll_luas_and_store"] >= 1 => fetchSince >= 0
  /\ \E t \in DueTimes :
       /\ \A u \in DueTimes : t <= u
       /\ t <= MaxClock
       /\ now' = t
  /\ UNCHANGED <<snapshots, accuracy, pollIdx, pollBase, pollLog, pollPrevFailed,
                 lastRun, raised, trackFailures, fetched, aux>>

InitSched ==
  /\ InitTables /\ trackFailures = FALSE /\ fetched = NoFetch
  /\ examined = NoExamined
  /\ instances = [job \in Jobs |-> 0]
  /\ next_run_time = Interval
  /\ schedulerState = "running"
  /\ fetchSince = -1
  /\ fireLog = {}
  /\ session = NoSession
  /\ engineSession = NoEngineSession
  /\ readLog = NoRead
  /\ loops = NoLoops

NextSched ==
  \/ Fire
  \/ PollStopBegin
  \/ PollStopTimeout
  \/ PollStopNoTrams
  \/ ReconcileJob
  \/ TickSched

SpecSched == InitSched /\ [][NextSched]_vars

(* ------------- the jobs and the requests, statement by statement ------ *)
(* The runs of the two jobs in their worker threads and the request        *)
(* handlers of routes.py interleave at the statements that reach the       *)
(* database.  A firing may come at any instant.                            *)
JobFetchResults ==
  {forecasts \in FetchResults :
     \A k \in 1..Len(forecasts) : forecasts[k].due_minutes <= MaxJobMinutes}

FireAny ==
  /\ \E job \in Jobs : Admit(job)
  /\ UNCHANGED <<now, snapshots, accuracy, pollIdx, pollBase, pollLog,
                 pollPrevFailed, lastRun, raised, trackFailures, fetched,
                 examined, next_run_time, schedulerState, fetchSince, session,
                 engineSession, readLog, loops>>

(* main.py:27: scheduler.shutdown(); it waits for the runs in progress.    *)
Shutdown ==
  /\ schedulerState = "running"
  /\ schedulerState' = "stopped"
  /\ UNCHANGED <<now, snapshots, accuracy, pollIdx, pollBase, pollLog,
                 pollPrevFailed, lastRun, raised, trackFailures, fetched,
                 examined, instances, next_run_time, fetchSince, fireLog,
                 session, engineSession, readLog, loops>>

(* The sampler's run returns when its loop is back at the first stop.      *)
PollInstances ==
  IF pollIdx' = 1 THEN RunReturned("poll_luas_and_store") ELSE instances

(* Lines 217-222, 248-251: the fetch of the stop raises.                   *)
JobFetchError ==
  /\ instances["poll_luas_and_store"] >= 1
  /\ ~session.open
  /\ \E class \in ExceptionClasses : FetchRaised(class)
  /\ instances' = PollInstances
  /\ UNCHANGED <<fetched, examined, next_run_time, schedulerState, fetchSince,
                 fireLog, session, engineSession, readLog, loops>>

(* Lines 221-225: the fetch returns its forecasts and the session of the   *)
(* stop is opened.                                                         *)
JobOpenSession ==
  /\ instances["poll_luas_and_store"] >= 1
  /\ ~session.open
  /\ \E forecasts \in JobFetchResults :
       /\ Len(snapshots) + Len(forecasts) <= MaxSnapshots
       /\ session' = [open |-> TRUE, forecasts |-> forecasts, pending |-> <<>>,
                      failed |-> FALSE]
  /\ UNCHANGED <<now, snapshots, accuracy, pollIdx, pollBase, pollLog,
                 pollPrevFailed, lastRun, raised, trackFailures, fetched,
                 examined, instances, next_run_time, schedulerState, fetchSince,
                 fireLog, engineSession, readLog, loops>>

(* Lines 227-236: one pass of the loop: the next row is constructed and    *)
(* added to the session, or its construction raises.                       *)
JobAddRow ==
  /\ session.open /\ ~session.failed
  /\ Len(session.pending) < Len(session.forecasts)
  /\ \E raises \in BOOLEAN :
       session' =
         IF raises THEN [session EXCEPT !.failed = TRUE]
         ELSE [session EXCEPT !.pending =
                 Append(@, LuasSnapshot(Len(snapshots) + Len(@) + 1,
                                        STOPS_TO_POLL[pollIdx],
                                        session.forecasts[Len(@) + 1], now))]
  /\ UNCHANGED <<now, snapshots, accuracy, pollIdx, pollBase, pollLog,
                 pollPrevFailed, lastRun, raised, trackFailures, fetched,
                 examined, instances, next_run_time, schedulerState, fetchSince,
                 fireLog, engineSession, readLog, loops>>

(* Lines 238-246: the session ends with its commit or its rollback.        *)
JobEndSession ==
  /\ session.open
  /\ session.failed \/ Len(session.pending) = Len(session.forecasts)
  /\ EndSession(session.forecasts, session.pending, session.failed)
  /\ session' = NoSession
  /\ instances' = PollInstances
  /\ UNCHANGED <<now, fetched, examined, next_run_time, schedulerState,
                 fetchSince, fireLog, engineSession, readLog, loops>>

(* Lines 44-180: the engine queries and adds its records to its session;   *)
(* a query that raises ends the run (lines 199-206).                       *)
JobQuery ==
  /\ instances["calculate_accuracy_from_snapshots"] >= 1
  /\ ~engineSession.open
  /\ \E raises \in BOOLEAN :
       IF raises
       THEN /\ EndCycle(<<>>, "query_error")
            /\ instances' = RunReturned("calculate_accuracy_from_snapshots")
            /\ UNCHANGED engineSession
       ELSE /\ Len(accuracy) + Len(CycleRecords(now)) <= MaxAccuracy
            /\ engineSession' = [open |-> TRUE, added |-> CycleRecords(now)]
            /\ UNCHANGED <<now, snapshots, accuracy, pollIdx, pollBase, pollLog,
                           pollPrevFailed, lastRun, raised, trackFailures,
                           fetched, instances>>
  /\ UNCHANGED <<examined, next_run_time, schedulerState, fetchSince, fireLog,
                 session, readLog, loops>>

(* Lines 181-197: the commit of the run's records, or their rollback.      *)
JobCommit ==
  /\ engineSession.open
  /\ \E outcome \in {"ok", "commit_error"} : EndCycle(engineSession.added, outcome)
  /\ engineSession' = NoEngineSession
  /\ instances' = RunReturned("calculate_accuracy_from_snapshots")
  /\ UNCHANGED <<examined, next_run_time, schedulerState, fetchSince, fireLog,
                 session, readLog, loops>>

Larger(a, b) == IF a >= b THEN a ELSE b

(* A reader that also sees what other sessions have added and not          *)
(* committed.                                                              *)
VisibleUncommitted(committed, pending) == committed \o pending

(* database.py:23, routes.py (get_db): each request and each run has a     *)
(* session of its own with autocommit off; the rows a session added reach  *)
(* the table with its commit, and a query of another session returns       *)
(* committed rows.                                                         *)
Visible(committed, pending) == committed

(* The handlers of routes.py that only read (get_arrivals, lines 131-199;  *)
(* get_accuracy_summary, lines 210-301; the debug and metrics handlers).   *)
ReadRequest ==
  /\ readLog' =
         [by |-> "request",
          uncommitted_snapshots |->
            Larger(readLog.uncommitted_snapshots,
                   Len(Visible(snapshots, session.pending)) - Len(snapshots)),
          uncommitted_accuracy |->
            Larger(readLog.uncommitted_accuracy,
                   Len(Visible(accuracy, engineSession.added)) - Len(accuracy)),
          pending_snapshots |->
            Larger(readLog.pending_snapshots, Len(session.pending)),
          pending_accuracy |->
            Larger(readLog.pending_accuracy, Len(engineSession.added))]
  /\ UNCHANGED <<now, snapshots, accuracy, pollIdx, pollBase, pollLog,
                 pollPrevFailed, lastRun, raised, trackFailures, fetched,
                 examined, instances, next_run_time, schedulerState, fetchSince,
                 fireLog, session, engineSession, loops>>

NextJobs ==
  \/ FireAny
  \/ Shutdown
  \/ JobFetchError
  \/ JobOpenSession
  \/ JobAddRow
  \/ JobEndSession
  \/ JobQuery
  \/ JobCommit
  \/ ReadRequest

SpecJobs == Init /\ [][NextJobs]_vars

(* ============================ properties ============================== *)
(* The rows the last successful reconciliation cycle read.                 *)
HasRun == lastRun.outcome = "ok"

SeenRows ==
  {snapshots[i] : i \in {j \in 1..lastRun.nsnap :
      snapshots[j].recorded_at >= lastRun.at - SnapshotWindowSeconds}}

(* a comes before b in the recordedAt order of a track (rows of equal      *)
(* recordedAt in row order).                                               *)
Before(a, b) ==
  \/ a.recorded_at < b.recorded_at
  \/ a.recorded_at = b.recorded_at /\ a.id < b.id

(* (a, b) is an adjacent pair of one track among rows.                     *)
AdjacentPair(rows, a, b) ==
  /\ Key(a) = Key(b)
  /\ Before(a, b)
  /\ ~ \E c \in rows : Key(c) = Key(a) /\ Before(a, c) /\ Before(c, b)

Gap(a, b) == b.recorded_at - a.recorded_at

Transition(a, b) == <<a.forecast_arrival_minutes, b.forecast_arrival_minutes>>

MatchedSet == {<<1, 0>>, <<2, 1>>, <<3, 2>>}

RecordsOf(a, b) == {k \in 1..Len(accuracy) : accuracy[k].pair = <<a.id, b.id>>}

(* C1: after a successful cycle, every adjacent pair of a track it read    *)
(* with a transition N -> N-1, N in 1..3, and a gap of at most 120 s has   *)
(* exactly one AccuracyRecord, whose accuracyDelta lies in [-2, 2].        *)
C1_OneRecordPerQualifyingPair ==
  HasRun =>
    \A a \in SeenRows, b \in SeenRows :
      (AdjacentPair(SeenRows, a, b) /\ Transition(a, b) \in MatchedSet
         /\ Gap(a, b) <= 120)
      => /\ Cardinality(RecordsOf(a, b)) = 1
         /\ \A k \in RecordsOf(a, b) : accuracy[k].accuracy_delta \in -2..2

(* C2: the Accuracy Store never holds two records of the same transition   *)
(* (the same pair of snapshots), whatever time passed between the cycles.  *)
C2_AtMostOneRecordPerTransition ==
  \A j \in 1..Len(accuracy), k \in 1..Len(accuracy) :
    accuracy[j].pair = accuracy[k].pair => j = k

(* C3: a cycle that runs over the same snapshot window as an earlier cycle *)
(* inserts no record the earlier cycle inserted, whatever the delay.       *)
C3_SecondRunInsertsNoDuplicate ==
  \A j \in 1..lastRun.nacc, k \in (lastRun.nacc + 1)..Len(accuracy) :
    (RecentSnapshots(accuracy[j].calculated_at) = RecentSnapshots(lastRun.at)
       /\ lastRun.nsnap = Len(snapshots))
    => accuracy[k].pair # accuracy[j].pair

PrevOf(k) == snapshots[accuracy[k].pair[1]]
CurrOf(k) == snapshots[accuracy[k].pair[2]]

(* A pair the last successful cycle read and left without a record.        *)
SeenWithoutRecord(a, b) ==
  /\ HasRun
  /\ a \in SeenRows /\ b \in SeenRows
  /\ AdjacentPair(SeenRows, a, b)
  /\ RecordsOf(a, b) = {}

C5_NoRecordAcrossPollGap ==
  /\ \A k \in 1..Len(accuracy) : Gap(PrevOf(k), CurrOf(k)) <= 120
  /\ (HasRun /\ lastRun.nacc = 0) =>
       \A a \in SeenRows, b \in SeenRows, c \in SeenRows :
         (/\ AdjacentPair(SeenRows, a, b) /\ Gap(a, b) > 120
          /\ AdjacentPair(SeenRows, b, c) /\ Gap(b, c) <= 120
          /\ Transition(b, c) \in MatchedSet
          /\ Abs(AccuracyDelta(b, c)) <= 2)
         => RecordsOf(b, c) # {}

(* Witness of C5: a track with a pair 150 s apart that has a matched       *)
(* transition and no record, followed by a pair that has a record.         *)
C5_Witness ==
  \E a \in SeenRows, b \in SeenRows, c \in SeenRows :
    /\ SeenWithoutRecord(a, b)
    /\ Gap(a, b) > 120
    /\ Transition(a, b) \in MatchedSet
    /\ AdjacentPair(SeenRows, b, c)
    /\ RecordsOf(b, c) # {}

(* C6: every AccuracyRecord has |accuracyDelta| <= 2, and a candidate      *)
(* whose |accuracyDelta| exceeds 2 has no record.                          *)
C6_SanityBound ==
  /\ \A k \in 1..Len(accuracy) : accuracy[k].accuracy_delta \in -2..2
  /\ \A k \in 1..Len(accuracy) :
       Abs(PyRound(Gap(PrevOf(k), CurrOf(k))
                     - 120 * PrevOf(k).forecast_arrival_minutes, 120)) <= 2

(* Witness of C6: a successful cycle read a matched transition 3 -> 2 with *)
(* a gap of 30 s (a delta of -3) and recorded nothing for it.              *)
C6_Witness ==
  \E a \in SeenRows, b \in SeenRows :
    /\ SeenWithoutRecord(a, b)
    /\ Transition(a, b) = <<3, 2>>
    /\ Gap(a, b) = 30

(* The store of the scenario of C7, with T = 0.                            *)
ScenarioStore ==
  /\ Len(snapshots) = 2
  /\ \A i \in 1..2 : Key(snapshots[i]) = <<"cab", "Inbound", "Broombridge">>
  /\ Transition(snapshots[1], snapshots[2]) = <<2, 1>>
  /\ snapshots[1].recorded_at = 0
  /\ snapshots[2].recorded_at = 30

(* C7: on the store (cab, Inbound, Broombridge, 2, T), (cab, Inbound,      *)
(* Broombridge, 1, T+30s) and an empty Accuracy Store, one successful      *)
(* cycle within the snapshot window inserts exactly one record, with       *)
(* forecastedMinutes = 2, actualMinutes in {0,1}, accuracyDelta in [-2,2]. *)
C7_ScenarioTwoToOne ==
  (/\ ScenarioStore
   /\ HasRun /\ lastRun.nsnap = 2 /\ lastRun.nacc = 0
   /\ lastRun.at <= SnapshotWindowSeconds)
  => /\ Len(accuracy) = 1
     /\ accuracy[1].forecasted_minutes = 2
     /\ accuracy[1].actual_minutes \in {0, 1}
     /\ accuracy[1].accuracy_delta \in -2..2

(* Witness of C7: the scenario store after its first successful cycle.     *)
C7_Witness ==
  /\ ScenarioStore
  /\ HasRun /\ lastRun.nsnap = 2 /\ lastRun.nacc = 0
  /\ Len(accuracy) = 1
  /\ accuracy[1].pair = <<1, 2>>

(* C8: every stored record has accuracyDelta = actualMinutes -             *)
(* forecastedMinutes on its integer fields.                                *)
C8_DeltaIsActualMinusForecast ==
  \A k \in 1..Len(accuracy) :
    accuracy[k].accuracy_delta
      = accuracy[k].actual_minutes - accuracy[k].forecasted_minutes

(* The rows the sampler run in progress (or the last one) wrote for the    *)
(* stop at index i.                                                        *)
RowsOfStop(i) ==
  Cardinality({k \in (pollBase + 1)..Len(snapshots) :
                 snapshots[k].stop_code = STOPS_TO_POLL[i]})

RunComplete == pollIdx = 1 /\ pollLog[1].status # "none"

(* C9: in one run of poll_luas_and_store, a stop whose fetch fails gets no *)
(* snapshot, and the run still handles every other stop: at the end of the *)
(* run every stop was polled, and every stop whose fetch and write         *)
(* succeeded has its rows in the store.                                    *)
C9_FetchFailureIsolated ==
  /\ \A i \in 1..NumStops :
       /\ pollLog[i].status = "fetch_error" => RowsOfStop(i) = 0
       /\ pollLog[i].status = "stored" => RowsOfStop(i) = pollLog[i].returned
  /\ RunComplete => \A i \in 1..NumStops : pollLog[i].status # "none"

(* Witness of C9: a finished run whose first stop failed to fetch and      *)
(* whose second stop stored its rows.                                      *)
C9_Witness ==
  /\ RunComplete
  /\ pollLog[1].status = "fetch_error"
  /\ pollLog[2].status = "stored" /\ pollLog[2].returned >= 1
  /\ RowsOfStop(2) = pollLog[2].returned

(* C10: the rows of one stop in one run are all the records the adapter    *)
(* returned or none of them; a failing batch leaves no row and does not    *)
(* touch the rows of the other stops.                                      *)
C10_BatchAtomic ==
  \A i \in 1..NumStops :
    /\ RowsOfStop(i) \in {0, pollLog[i].returned}
    /\ pollLog[i].status = "store_error" =>
         /\ RowsOfStop(i) = 0
         /\ Len(snapshots) - pollBase
              = Cardinality({k \in (pollBase + 1)..Len(snapshots) :
                   \E j \in 1..NumStops :
                      /\ j # i /\ pollLog[j].status = "stored"
                      /\ snapshots[k].stop_code = STOPS_TO_POLL[j]})

(* Witness of C10: a batch of two records was rolled back in a run in      *)
(* which the other stop stored its rows.                                   *)
C10_Witness ==
  \E i \in 1..NumStops, j \in 1..NumStops :
    /\ pollLog[i].status = "store_error" /\ pollLog[i].returned = 2
    /\ RowsOfStop(i) = 0
    /\ pollLog[j].status = "stored" /\ RowsOfStop(j) >= 1

(* A stop of the sampler run in progress (or of the last one) failed.      *)
PollRunFailed ==
  \E i \in 1..NumStops : pollLog[i].status \in {"fetch_error", "store_error"}

(* C11: no failure inside a sampler run or an engine run (fetch or parse  *)
(* error, store error, commit failure, failing rollback) propagates out of *)
(* the job function: no job has ever raised.  The witness shows that the   *)
(* firing after a failed run runs and succeeds.                            *)
C11_NoFailureEscapes == raised = {}

(* Witness of C11: a sampler run in which every stop stored its rows       *)
(* after a run with a failing stop, and a successful engine run after a    *)
(* failed one.                                                             *)
C11_Witness ==
  /\ RunComplete /\ pollPrevFailed /\ ~PollRunFailed
  /\ lastRun.outcome = "ok" /\ lastRun.after_failure
  /\ raised = {}

(* The rows of the Accuracy Store the scheduled engine inserted in or      *)
(* after its last run.                                                     *)
RowsSinceLastRun ==
  {k \in (lastRun.nacc + 1)..Len(accuracy) :
     accuracy[k].inserted_by = "calculate_accuracy_from_snapshots"}

C13_OnlyEngineInserts ==
  \A k \in 1..Len(accuracy) :
    accuracy[k].inserted_by = "calculate_accuracy_from_snapshots"

(* C14: the Snapshot Store is append-only.  Every step keeps the rows it   *)
(* held, in place and unchanged; only a step of the sampler adds rows, and *)
(* the rows it adds are rows of the stop it polls; a step of the engine or *)
(* of a request handler leaves the table as it was.                        *)
C14_SnapshotsAppendOnly ==
  [][/\ Len(snapshots') >= Len(snapshots)
     /\ SubSeq(snapshots', 1, Len(snapshots)) = snapshots
     /\ snapshots' # snapshots =>
          /\ pollLog'[pollIdx].status = "stored"
          /\ \A k \in (Len(snapshots) + 1)..Len(snapshots') :
               snapshots'[k].stop_code = STOPS_TO_POLL[pollIdx]
     /\ (lastRun' # lastRun \/ accuracy' # accuracy) => snapshots' = snapshots]_vars

(* Witness of C14: rows of two sampler cycles are in the table after an    *)
(* engine run and a request to POST /accuracy/calculate read them.         *)
C14_Witness ==
  /\ Len(snapshots) = 2
  /\ snapshots[1].recorded_at < snapshots[2].recorded_at
  /\ HasRun /\ lastRun.nsnap = 2
  /\ \E k \in 1..Len(accuracy) : accuracy[k].inserted_by = "calculate_accuracy"

(* ----------------------- the adapter's contract ----------------------- *)
(* The fields of a tram entry wherever the payload carries them: the       *)
(* destination, the minutes text and the direction.                        *)
HasField(tram, element, attribute) ==
  element \in DOMAIN tram.children \/ attribute \in DOMAIN tram.attrib

FieldOf(tram, element, attribute) ==
  IF element \in DOMAIN tram.children THEN tram.children[element]
  ELSE tram.attrib[attribute]

Placeholders == {"", "No trams forecast"}

ValidDestination(tram) ==
  /\ HasField(tram, "destination", "destination")
  /\ FieldOf(tram, "destination", "destination") \notin Placeholders

MinutesOf(tram) == FieldOf(tram, "dueMinutes", "dueMins")

DirectionOf(tram) ==
  IF "direction" \in DOMAIN tram.children THEN tram.children["direction"]
  ELSE tram.parent_name

DueMarkers == {<<"D", "U", "E">>, <<"d", "u", "e">>, <<"D", "u", "e">>}

(* A tram entry the contract keeps: a destination, and minutes that are    *)
(* the marker or a numeral.                                                *)
ValidTram(tram) ==
  /\ ValidDestination(tram)
  /\ HasField(tram, "dueMinutes", "dueMins")
  /\ MinutesOf(tram) \in DueMarkers \/ PyInt(MinutesOf(tram)).ok

(* The records the contract asks for: one per valid entry, in document     *)
(* order, with the entry's values.                                         *)
RECURSIVE ExpectedForecasts(_, _, _)
ExpectedForecasts(trams, i, out) ==
  IF i > Len(trams) THEN out
  ELSE ExpectedForecasts(trams, i + 1,
         IF ValidTram(trams[i])
         THEN Append(out,
                [direction |-> DirectionOf(trams[i]),
                 destination |-> FieldOf(trams[i], "destination", "destination"),
                 due_minutes |-> IF MinutesOf(trams[i]) \in DueMarkers THEN 0
                                 ELSE PyInt(MinutesOf(trams[i])).value])
         ELSE out)

Returned == fetched.done /\ ~fetched.error
Payload == fetched.response.trams

(* C15: no record the adapter returns, and no snapshot, has an empty or    *)
(* placeholder destination.                                                *)
C15_NoPlaceholderDestination ==
  Returned =>
    /\ \A i \in 1..Len(fetched.forecasts) :
         fetched.forecasts[i].destination \notin Placeholders
    /\ \A k \in 1..Len(snapshots) : snapshots[k].destination \notin Placeholders

(* C16: on a payload of child-element entries with valid destinations and  *)
(* non-negative numerals, markers or non-numeric texts as minutes, the     *)
(* adapter returns the records of the entries with a numeral or a marker,  *)
(* in document order, and no record for a non-numeric entry.               *)
C16_NonNumericDropped ==
  (/\ Returned
   /\ \A i \in 1..Len(Payload) :
        /\ Payload[i] \in ElementTrams
        /\ ValidDestination(Payload[i])
        /\ "dueMinutes" \in DOMAIN Payload[i].children
        /\ MinutesOf(Payload[i]) \in {<<"5">>, <<"0">>, <<"X">>} \cup DueMarkers)
  => fetched.forecasts = ExpectedForecasts(Payload, 1, <<>>)

(* C17: on a payload whose entries carry destination and dueMins as        *)
(* attributes under a named direction element, the adapter returns one     *)
(* record per valid entry, in document order, with the entry's values.     *)
C17_AttributePayloadParsed ==
  (/\ Returned
   /\ \A i \in 1..Len(Payload) :
        /\ Payload[i] \in AttributeTrams
        /\ HasField(Payload[i], "dueMinutes", "dueMins")
        /\ MinutesOf(Payload[i]) \in {<<"5">>, <<"0">>} \cup DueMarkers)
  => fetched.forecasts = ExpectedForecasts(Payload, 1, <<>>)

(* C18: a transport failure or a malformed payload is raised as an error   *)
(* and takes the sampler's error path; a well-formed payload without trams *)
(* is returned as an empty list and does not; no snapshot is written in    *)
(* either case.                                                            *)
C18_FailureIsNotEmptyResult ==
  fetched.done =>
    /\ fetched.response.kind \in {"transport_error", "malformed"} =>
         /\ fetched.error
         /\ pollLog[1].status = "fetch_error"
         /\ snapshots = <<>>
    /\ (fetched.response.kind = "document" /\ Payload = <<>>) =>
         /\ ~fetched.error /\ fetched.forecasts = <<>>
         /\ pollLog[1].status # "fetch_error" /\ pollLog[1].returned = 0
         /\ snapshots = <<>>

(* Witness of C18: a malformed payload was fetched; the adapter raised and *)
(* the sampler logged the stop as failed.                                  *)
C18_Witness ==
  /\ fetched.done /\ fetched.response.kind = "malformed"
  /\ fetched.error /\ pollLog[1].status = "fetch_error"
  /\ snapshots = <<>>

(* C19: every record the adapter returns and every snapshot has minutes    *)
(* >= 0, whatever minutes text the feed sent.                              *)
C19_MinutesNonNegative ==
  /\ \A i \in 1..Len(fetched.forecasts) : fetched.forecasts[i].due_minutes >= 0
  /\ \A k \in 1..Len(snapshots) : snapshots[k].forecast_arrival_minutes >= 0

(* C20: on a payload whose entries all have a valid destination and the    *)
(* marker DUE (in any letter case) or the numeral 0 as minutes, the        *)
(* adapter returns every entry, with due_minutes = 0.                      *)
C20_DueIsZero ==
  (/\ Returned
   /\ \A i \in 1..Len(Payload) :
        /\ ValidDestination(Payload[i])
        /\ HasField(Payload[i], "dueMinutes", "dueMins")
        /\ MinutesOf(Payload[i]) \in {<<"0">>} \cup DueMarkers)
  => /\ Len(fetched.forecasts) = Len(Payload)
     /\ \A i \in 1..Len(fetched.forecasts) : fetched.forecasts[i].due_minutes = 0

(* ------------------------- the engine's records ----------------------- *)
(* The rows in the window of a cycle that starts at instant t.             *)
RowsInWindow(t) ==
  {snapshots[i] : i \in {j \in 1..Len(snapshots) :
      snapshots[j].recorded_at >= t - SnapshotWindowSeconds}}

SameMeasurement(r, prev) ==
  /\ r.stop_code = prev.stop_code
  /\ r.direction = prev.direction
  /\ r.destination = prev.destination
  /\ r.forecasted_minutes = prev.forecast_arrival_minutes

(* A committed record that makes the last cycle skip the candidate of prev *)
(* : same key, same forecastedMinutes, calculated within the 2 minutes     *)
(* before the cycle.                                                       *)
CommittedBefore(prev) ==
  {j \in 1..lastRun.nacc :
     /\ SameMeasurement(accuracy[j], prev)
     /\ accuracy[j].calculated_at >= lastRun.at - 120}

(* C24: a cycle inserts no record for a candidate for which the Accuracy   *)
(* Store already held, when the cycle ran, a committed record with the     *)
(* same key, the same forecastedMinutes and a calculatedAt within the last *)
(* 2 minutes.                                                              *)
C24_DedupSkipsCandidate ==
  HasRun =>
    \A k \in (lastRun.nacc + 1)..Len(accuracy) :
      accuracy[k].calculated_at = lastRun.at => CommittedBefore(PrevOf(k)) = {}

(* Witness of C24: a cycle read a pair that passes the gap filter, the     *)
(* transition match and the sanity bound, found a record of it calculated  *)
(* within the last 2 minutes, and inserted nothing.                        *)
C24_Witness ==
  /\ HasRun /\ lastRun.pending = 0 /\ Len(accuracy) = lastRun.nacc
  /\ \E a \in SeenRows, b \in SeenRows :
       /\ AdjacentPair(SeenRows, a, b)
       /\ Transition(a, b) \in MatchedSet
       /\ Gap(a, b) <= 120
       /\ Abs(AccuracyDelta(a, b)) <= 2
       /\ CommittedBefore(a) # {}

(* C27: every record of the engine is derived from one adjacent pair of    *)
(* snapshots of one track of the window of its cycle: the two snapshots    *)
(* and the record have the same (stopCode, direction, destination), and    *)
(* forecastedMinutes is the earlier snapshot's forecastMinutes.            *)
C27_RecordFromOneTrackPair ==
  \A k \in 1..Len(accuracy) :
    /\ Key(PrevOf(k)) = Key(CurrOf(k))
    /\ <<accuracy[k].stop_code, accuracy[k].direction, accuracy[k].destination>>
         = Key(PrevOf(k))
    /\ accuracy[k].forecasted_minutes = PrevOf(k).forecast_arrival_minutes
    /\ PrevOf(k) \in RowsInWindow(accuracy[k].calculated_at)
    /\ CurrOf(k) \in RowsInWindow(accuracy[k].calculated_at)
    /\ AdjacentPair(RowsInWindow(accuracy[k].calculated_at), PrevOf(k), CurrOf(k))

(* Witness of C27: a record derived from the first and the third row of    *)
(* the table, with a row of another track between them.                    *)
C27_Witness ==
  \E k \in 1..Len(accuracy) :
    /\ accuracy[k].pair = <<1, 3>>
    /\ Key(snapshots[2]) # Key(snapshots[1])
    /\ snapshots[1].recorded_at < snapshots[2].recorded_at
    /\ snapshots[2].recorded_at < snapshots[3].recorded_at

(* C28: actualMinutes of a record is half of the gap between its two       *)
(* snapshots, in minutes, rounded to a nearest integer (at most half a     *)
(* minute away from gap/120 s), and not the rounded full gap when the two  *)
(* differ by more than the rounding.                                       *)
C28_ActualIsHalfGap ==
  \A k \in 1..Len(accuracy) :
    /\ Abs(120 * accuracy[k].actual_minutes - Gap(PrevOf(k), CurrOf(k))) <= 60
    /\ Gap(PrevOf(k), CurrOf(k)) > 90 =>
         accuracy[k].actual_minutes < PyRound(Gap(PrevOf(k), CurrOf(k)), 60)

(* Witness of C28: a record of a pair 120 s apart, with actualMinutes = 1. *)
C28_Witness ==
  \E k \in 1..Len(accuracy) :
    /\ Gap(PrevOf(k), CurrOf(k)) = 120
    /\ accuracy[k].actual_minutes = 1

(* C29: both snapshots of the pair of a record were recorded within the 2  *)
(* hours before the record's cycle, and a cycle that finds no snapshot in  *)
(* its window inserts no record.                                           *)
C29_OnlyWindowSnapshots ==
  /\ \A k \in 1..Len(accuracy) :
       /\ PrevOf(k).recorded_at >= accuracy[k].calculated_at - 7200
       /\ CurrOf(k).recorded_at >= accuracy[k].calculated_at - 7200
  /\ (HasRun /\ SeenRows = {}) =>
       /\ lastRun.pending = 0
       /\ \A k \in (lastRun.nacc + 1)..Len(accuracy) :
            accuracy[k].calculated_at # lastRun.at

(* Witness of C29: a cycle ran when the only matched pair of the table,    *)
(* 1 -> 0 at most 120 s apart, had left the window (one row or both), and  *)
(* the Accuracy Store is empty.                                            *)
C29_Witness ==
  /\ HasRun /\ accuracy = <<>>
  /\ Len(snapshots) = 2
  /\ Transition(snapshots[1], snapshots[2]) = <<1, 0>>
  /\ Key(snapshots[1]) = Key(snapshots[2])
  /\ Gap(snapshots[1], snapshots[2]) = 30
  /\ snapshots[1] \notin SeenRows /\ snapshots[2] \in SeenRows

(* The rows of the stop at index i that the sampler run in progress (or    *)
(* the last one) wrote.                                                    *)
BatchOfStop(i) ==
  {snapshots[k] : k \in {j \in (pollBase + 1)..Len(snapshots) :
      snapshots[j].stop_code = STOPS_TO_POLL[i]}}

(* C30: the rows the sampler writes for one stop in one cycle carry the    *)
(* same recordedAt, also when the clock advances while the batch is built. *)
C30_BatchSharesRecordedAt ==
  \A i \in 1..NumStops :
    \A a \in BatchOfStop(i), b \in BatchOfStop(i) : a.recorded_at = b.recorded_at

(* The rows of the track of row a that the last engine run read.           *)
TrackRows(a) == {c \in SeenRows : Key(c) = Key(a)}

ExaminedSet == {examined.pairs[i] : i \in 1..Len(examined.pairs)}

(* C26: whatever order the store returned the rows in, every pair (prev,   *)
(* curr) the engine examines is a pair of one track with prev.recordedAt   *)
(* <= curr.recordedAt and no row of the track recorded strictly between    *)
(* the two; the pairs of a track form one chain through all its rows (a    *)
(* track of n rows has n - 1 pairs, no row is prev twice or curr twice).   *)
C26_PairsInRecordedAtOrder ==
  HasRun =>
    /\ \A p \in ExaminedSet :
         LET prev == snapshots[p[1]]
             curr == snapshots[p[2]]
         IN  /\ prev \in SeenRows /\ curr \in SeenRows
             /\ Key(prev) = Key(curr)
             /\ prev.recorded_at <= curr.recorded_at
             /\ ~ \E c \in TrackRows(prev) :
                    prev.recorded_at < c.recorded_at /\ c.recorded_at < curr.recorded_at
    /\ \A p \in ExaminedSet, q \in ExaminedSet :
         (p[1] = q[1] \/ p[2] = q[2]) => p = q
    /\ \A p \in ExaminedSet : p[1] # p[2]
    /\ \A a \in SeenRows :
         Cardinality({p \in ExaminedSet : Key(snapshots[p[1]]) = Key(a)})
           = Cardinality(TrackRows(a)) - 1

(* Witness of C26: the query returned the three rows of one track, which  *)
(* have distinct recordedAt, latest first, and the engine examined the     *)
(* pairs (row 1, row 2) and (row 2, row 3).                                *)
C26_Witness ==
  /\ HasRun
  /\ examined.returned = <<3, 2, 1>>
  /\ snapshots[1].recorded_at < snapshots[2].recorded_at
  /\ snapshots[2].recorded_at < snapshots[3].recorded_at
  /\ examined.pairs = <<<<1, 2>>, <<2, 3>>>>

(* ---------------------------- the scheduler --------------------------- *)
Skipped(job, t) == [job |-> job, at |-> t, outcome |-> "skipped"] \in fireLog
Started(job, t) == [job |-> job, at |-> t, outcome |-> "started"] \in fireLog

C25_NextCycleOnSchedule ==
  \A e \in fireLog : e.job = "poll_luas_and_store" => e.outcome = "started"

(* ------------------------ sessions and requests ----------------------- *)
(* Every batch of the sampler run in progress (or of the last one) is in   *)
(* the table whole or not at all.                                          *)
WholeBatches ==
  \A i \in 1..NumStops : RowsOfStop(i) \in {0, pollLog[i].returned}

C23_ShutdownStopsFirings ==
  /\ [](schedulerState = "stopped" => WholeBatches)
  /\ [][schedulerState = "stopped" =>
          /\ schedulerState' = "stopped"
          /\ fireLog' = fireLog
          /\ \A job \in Jobs : instances'[job] <= instances[job]]_vars

(* Witness of C23: shutdown was called while the sampler run had added one *)
(* row of a batch of two to its session; the run is still in progress and  *)
(* the table holds no row of the batch.                                    *)
C23_Witness ==
  /\ schedulerState = "stopped"
  /\ instances["poll_luas_and_store"] = 1
  /\ session.open /\ Len(session.forecasts) = 2 /\ Len(session.pending) = 1
  /\ snapshots = <<>>

(* ------------------------- order of the rows -------------------------- *)
(* C31: the rows of a stop taken in the order of their insertion have      *)
(* non-decreasing recorded_at, after any cycles of the sampler, with stops *)
(* that fail and with a clock that advances between the cycles and inside  *)
(* a batch.                                                                *)
C31_RecordedAtNonDecreasing ==
  \A i \in 1..Len(snapshots), j \in 1..Len(snapshots) :
    i < j /\ snapshots[i].stop_code = snapshots[j].stop_code
      => snapshots[i].recorded_at <= snapshots[j].recorded_at

(* Witness of C31: two cycles stored one row each for the first stop, 30 s *)
(* apart, and the second stop failed in the later cycle.                   *)
C31_Witness ==
  /\ Len(snapshots) = 2
  /\ snapshots[1].stop_code = snapshots[2].stop_code
  /\ snapshots[1].recorded_at = 0 /\ snapshots[2].recorded_at = 30
  /\ pollIdx = 1 /\ pollLog[2].status = "fetch_error"

(* ------------------------ forecast arrival time ----------------------- *)
(* C32: every stored row has forecast_arrival_time = recorded_at +         *)
(* forecast_arrival_minutes minutes, with or without a dueTime in the feed *)
(* entry and whatever time passes between the parse and the write.         *)
C32_ArrivalTimeIsRecordedPlusMinutes ==
  \A k \in 1..Len(snapshots) :
    snapshots[k].forecast_arrival_time =
      snapshots[k].recorded_at + 60 * snapshots[k].forecast_arrival_minutes

(* --------------------- the range of the estimates --------------------- *)
(* C33: every record of the scheduled engine has actual_minutes 0 or 1 and *)
(* accuracy_delta <= 0: the engine never records a tram as later than its  *)
(* forecast.                                                               *)
C33_NeverLaterThanForecast ==
  \A k \in 1..Len(accuracy) :
    /\ accuracy[k].actual_minutes \in {0, 1}
    /\ accuracy[k].accuracy_delta <= 0

(* Witness of C33: the record of a transition 1 -> 0 over a gap of 120 s,  *)
(* the largest estimate against the smallest forecast: actual_minutes 1,   *)
(* accuracy_delta 0.                                                       *)
C33_Witness ==
  \E k \in 1..Len(accuracy) :
    /\ Gap(PrevOf(k), CurrOf(k)) = MaxPollGapSeconds
    /\ accuracy[k].forecasted_minutes = 1
    /\ accuracy[k].actual_minutes = 1
    /\ accuracy[k].accuracy_delta = 0

(* ----------------------- pairs inside one batch ----------------------- *)
(* C34: the two snapshots of the pair of a record were written by two      *)
(* different sampler cycles: never both by the same poll of one stop.      *)
C34_PairFromTwoCycles ==
  \A k \in 1..Len(accuracy) :
    \A i \in 1..NumStops :
      ~(PrevOf(k) \in BatchOfStop(i) /\ CurrOf(k) \in BatchOfStop(i))

(* ---------------------- dedup inside one cycle ------------------------ *)
(* C35: one cycle never inserts two records with the same (stop_code,      *)
(* direction, destination) and the same forecasted_minutes.                *)
C35_NoDuplicateInOneCycle ==
  \A j \in 1..Len(accuracy), k \in 1..Len(accuracy) :
    (/\ j < k
     /\ accuracy[j].calculated_at = accuracy[k].calculated_at
     /\ lastRun.nacc < j)
      => ~SameMeasurement(accuracy[k], PrevOf(j))

(* ------------------ the endpoint against the engine ------------------- *)
(* What a record says of its transition: the key, the forecast, the        *)
(* estimate, the delta and the two snapshots.                              *)
Measurement(r) ==
  [stop_code |-> r.stop_code, direction |-> r.direction,
   destination |-> r.destination, forecasted_minutes |-> r.forecasted_minutes,
   actual_minutes |-> r.actual_minutes, accuracy_delta |-> r.accuracy_delta,
   pair |-> r.pair]

Measurements(records) == {Measurement(records[k]) : k \in 1..Len(records)}

(* C36: started on the same contents of the two stores, the request POST   *)
(* /accuracy/calculate and the scheduled engine insert the same records.   *)
C36_EndpointMatchesEngine ==
  Measurements(ApiRecords(now)) = Measurements(CycleRecords(now))

(* ------------------------------ routing ------------------------------- *)
(* C37: a request GET /arrivals/cabra is served by get_cabra_arrivals and  *)
(* answered with the arrivals of stop cab, not with status 400.            *)
C37_CabraServedByCompatHandler ==
  (readLog.by # "none" /\ readLog.path = <<"arrivals", "cabra">>)
    => /\ readLog.by = "get_cabra_arrivals"
       /\ readLog.answer.status = 200
       /\ readLog.answer.stop_code = "cab"

(* ----------------------------- event loops ---------------------------- *)
(* The event loops the sampler created that are not closed.                *)
UnclosedLoops ==
  loops.unreferenced + IF loops.current = "open" THEN 1 ELSE 0

(* C38: when the sampler is done with a stop, the event loop it created    *)
(* for the fetch is closed, also when the fetch raised LuasAPIError; no    *)
(* unclosed loop remains after any number of cycles.                       *)
C38_EventLoopsClosed == UnclosedLoops = 0

====
